---- MODULE Spec2Model ----
(***************************************************************************)
(* Model of the svql driver: configuration of the SubCircuit solver,       *)
(* conversion of RTLIL modules to graphs (module2graph), the node          *)
(* compatibility hook (userCompareNodes) and the query orchestration       *)
(* (SvqlPass::run_query).                                                  *)
(*                                                                         *)
(* Names that the code inspects character by character (cell types) are    *)
(* sequences of one-character strings; an RTLIL::Const is the sequence of  *)
(* its bit states, least significant bit first.                            *)
(***************************************************************************)
EXTENDS Integers, Sequences, FiniteSets, TLC

VARIABLES
    uni,      \* SpecUnify: one call chain of unifiedParam
    cmp,      \* SpecCompare: one call of userCompareNodes
    rq,       \* Spec: configure followed by one run_query
    mg        \* SpecGraph: one call of module2graph

vars == <<uni, cmp, rq, mg>>

(***************************************************************************)
(* Bounds of the model.                                                    *)
(***************************************************************************)
MaxConstLen == 2
MaxParams == 1
MaxHayModules == 2
MaxPermLen == 3

(***************************************************************************)
(* Generic helpers.                                                        *)
(***************************************************************************)
Min(a, b) == IF a < b THEN a ELSE b

RECURSIVE Pow2(_)
Pow2(n) == IF n = 0 THEN 1 ELSE 2 * Pow2(n - 1)

\* std::string::compare(0, len, prefix) == 0 / IdString::begins_with
begins_with(s, prefix) ==
    /\ Len(s) >= Len(prefix)
    /\ \A i \in 1..Len(prefix) : s[i] = prefix[i]

\* cell types used as inputs
T_add  == <<"$", "a", "d", "d">>
T_AND  == <<"$", "_", "A", "N", "D", "_">>
T_OR   == <<"$", "_", "O", "R", "_">>
T_user == <<"\\", "m">>

(***************************************************************************)
(* RTLIL::Const: bit states and the conversions unifiedParam applies.      *)
(***************************************************************************)
States == {"0", "1", "x", "z"}

\* width of an int, and of the Const built from an int or a bool
ConstWidth == 32

\* RTLIL::Const::as_bool(): some bit is S1
as_bool(value) == \E i \in 1..Len(value) : value[i] = "1"

\* INT_MIN of the 32-bit int: -(2^31)
IntMin == (0 - Pow2(ConstWidth - 2)) * 2

\* RTLIL::Const::as_int(): the low 32 bits, S1 bits set, as an int32_t
\* (bit 31 is the sign bit of the two's complement int)
RECURSIVE SumBits(_, _)
SumBits(value, n) ==
    IF n = 0 THEN 0
    ELSE (IF value[n] = "1" THEN Pow2(n - 1) ELSE 0) + SumBits(value, n - 1)

as_int(value) ==
    LET low == SumBits(value, Min(Len(value), ConstWidth - 1))
    IN  IF Len(value) >= ConstWidth /\ value[ConstWidth] = "1"
        THEN IntMin + low ELSE low

\* RTLIL::Const(int val, int width = 32): bit i is (val >> i) & 1
ConstOfInt(val) ==
    LET low == IF val < 0 THEN val - IntMin ELSE val
    IN  [i \in 1..ConstWidth |->
            IF i = ConstWidth THEN (IF val < 0 THEN "1" ELSE "0")
            ELSE IF (low \div Pow2(i - 1)) % 2 = 1 THEN "1" ELSE "0"]

\* a bool converts to int 0 / 1 before the Const is built
ConstOfBool(b) == ConstOfInt(IF b THEN 1 ELSE 0)

(***************************************************************************)
(* unifiedParam: the fixed tables and the function.                        *)
(***************************************************************************)
BoolParams ==
    {"ARST_POLARITY", "A_SIGNED", "B_SIGNED", "CLK_ENABLE", "CLK_POLARITY",
     "CLR_POLARITY", "EN_POLARITY", "SET_POLARITY", "TRANSPARENT"}

IntParams ==
    {"ABITS", "A_WIDTH", "B_WIDTH", "CTRL_IN_WIDTH", "CTRL_OUT_WIDTH",
     "OFFSET", "PORTID", "PRIORITY", "RD_PORTS", "SIZE", "STATE_BITS",
     "STATE_NUM", "STATE_NUM_LOG2", "STATE_RST", "S_WIDTH", "TRANS_NUM",
     "WIDTH", "WR_PORTS", "Y_WIDTH"}

\* a cell type the tables apply to: begins with "$" but not with "$_"
IsInternalType(cell_type) ==
    begins_with(cell_type, <<"$">>) /\ ~begins_with(cell_type, <<"$", "_">>)

\* the bug this stands for: a polarity/flag parameter stored inverted
unifiedParam_inverted(cell_type, param, value) ==
    IF ~IsInternalType(cell_type) THEN value
    ELSE IF param \in BoolParams THEN ConstOfBool(~as_bool(value))
    ELSE IF param \in IntParams THEN ConstOfInt(as_int(value))
    ELSE value

unifiedParam(cell_type, param, value) ==
    IF ~IsInternalType(cell_type) THEN value
    ELSE IF param \in BoolParams THEN ConstOfBool(as_bool(value))
    ELSE IF param \in IntParams THEN ConstOfInt(as_int(value))
    ELSE value

(***************************************************************************)
(* RTLIL data as the driver reads it.                                      *)
(*   wire : [null, name, width, port_id, attributes, selected]             *)
(*   bit  : [wire, offset, data]   (wire = NullWire for a literal)         *)
(*   cell : [null, name, type, parameters, attributes, conns, outputs,     *)
(*           module, selected]; conns is the sequence of (port, sig)       *)
(*           pairs in the order cell->connections() iterates them          *)
(***************************************************************************)
EmptyMap == [k \in {} |-> <<>>]

NullWire == [null |-> TRUE, name |-> "", width |-> 0, port_id |-> 0,
             attributes |-> EmptyMap, selected |-> FALSE]

NullCell == [null |-> TRUE]

\* RTLIL::Cell::getPort / hasPort
hasPort(cell, port) == \E i \in 1..Len(cell.conns) : cell.conns[i].port = port

getPort(cell, port) ==
    cell.conns[CHOOSE i \in 1..Len(cell.conns) : cell.conns[i].port = port].sig

(***************************************************************************)
(* SubCircuitReSolver: the knobs read by userCompareNodes.                 *)
(*   solver : [ignoreParameters, ignoredParams, cell_attr, wire_attr,      *)
(*             regexMap, ...]                                              *)
(***************************************************************************)
\* the bug this stands for: only presence is compared, never the value
compareAttributes_presence(attr, needleAttr, haystackAttr) ==
    \A it \in attr :
        (it \in DOMAIN needleAttr) = (it \in DOMAIN haystackAttr)

compareAttributes(attr, needleAttr, haystackAttr) ==
    \A it \in attr :
        LET nc == IF it \in DOMAIN needleAttr THEN 1 ELSE 0
            hc == IF it \in DOMAIN haystackAttr THEN 1 ELSE 0
        IN  ~(nc # hc \/ (nc > 0 /\ needleAttr[it] # haystackAttr[it]))

\* the parameter map one side contributes to the comparison
FilteredParams(solver, cell) ==
    [p \in {q \in DOMAIN cell.parameters : <<cell.type, q>> \notin solver.ignoredParams}
        |-> unifiedParam(cell.type, p, cell.parameters[p])]

\* the bug this stands for: values compared on the common keys only
ParamStep_commonKeys(solver, needleCell, haystackCell) ==
    solver.ignoreParameters
    \/ LET np == FilteredParams(solver, needleCell)
           hp == FilteredParams(solver, haystackCell)
       IN  \A p \in DOMAIN np \cap DOMAIN hp : np[p] = hp[p]

ParamStep(solver, needleCell, haystackCell) ==
    solver.ignoreParameters
    \/ FilteredParams(solver, needleCell) = FilteredParams(solver, haystackCell)

CellAttrStep(solver, needleCell, haystackCell) ==
    ~(Cardinality(solver.cell_attr) > 0
      /\ ~compareAttributes(solver.cell_attr, needleCell.attributes,
                            haystackCell.attributes))

\* the (needleWire, haystackWire) pairs in the order the loops visit them
RECURSIVE WirePairs(_, _, _, _)
WirePairs(needleCell, haystackCell, portMapping, k) ==
    IF k > Len(needleCell.conns) THEN <<>>
    ELSE LET needleSig   == needleCell.conns[k].sig
             haystackSig == getPort(haystackCell, portMapping[needleCell.conns[k].port])
         IN  [i \in 1..Min(Len(needleSig), Len(haystackSig))
                 |-> <<needleSig[i].wire, haystackSig[i].wire>>]
             \o WirePairs(needleCell, haystackCell, portMapping, k + 1)

\* portMapping.at() and getPort() find what they look up
WireLookupsOk(needleCell, haystackCell, portMapping) ==
    \A k \in 1..Len(needleCell.conns) :
        /\ needleCell.conns[k].port \in DOMAIN portMapping
        /\ hasPort(haystackCell, portMapping[needleCell.conns[k].port])

\* the bug this stands for: a bit is skipped as soon as one of its two wires
\* is the wire of the bit before
RECURSIVE WireAttrWalk_eitherSame(_, _, _, _)
WireAttrWalk_eitherSame(wire_attr, pairs, k, last) ==
    IF k > Len(pairs) THEN TRUE
    ELSE LET needleWire   == pairs[k][1]
             haystackWire == pairs[k][2]
         IN  IF (needleWire # last[1] /\ haystackWire # last[2])
                /\ ~compareAttributes(wire_attr,
                        IF needleWire.null THEN EmptyMap ELSE needleWire.attributes,
                        IF haystackWire.null THEN EmptyMap ELSE haystackWire.attributes)
             THEN FALSE
             ELSE WireAttrWalk_eitherSame(wire_attr, pairs, k + 1, pairs[k])

RECURSIVE WireAttrWalk(_, _, _, _)
WireAttrWalk(wire_attr, pairs, k, last) ==
    IF k > Len(pairs) THEN TRUE
    ELSE LET needleWire   == pairs[k][1]
             haystackWire == pairs[k][2]
         IN  IF (needleWire # last[1] \/ haystackWire # last[2])
                /\ ~compareAttributes(wire_attr,
                        IF needleWire.null THEN EmptyMap ELSE needleWire.attributes,
                        IF haystackWire.null THEN EmptyMap ELSE haystackWire.attributes)
             THEN FALSE
             ELSE WireAttrWalk(wire_attr, pairs, k + 1, pairs[k])

WireAttrStep(solver, needleCell, haystackCell, portMapping) ==
    Cardinality(solver.wire_attr) > 0 =>
        WireAttrWalk(solver.wire_attr,
                     WirePairs(needleCell, haystackCell, portMapping, 1),
                     1, <<NullWire, NullWire>>)

\* get_output_wires: the wires of the output ports' bits, literals left out
RECURSIVE get_output_wires_from(_, _)
get_output_wires_from(cell, k) ==
    IF k > Len(cell.conns) THEN <<>>
    ELSE (IF cell.conns[k].port \in cell.outputs
          THEN LET sig == cell.conns[k].sig
                   RECURSIVE Wires(_)
                   Wires(i) == IF i > Len(sig) THEN <<>>
                               ELSE (IF sig[i].wire.null THEN <<>> ELSE <<sig[i].wire>>)
                                    \o Wires(i + 1)
               IN  Wires(1)
          ELSE <<>>)
         \o get_output_wires_from(cell, k + 1)

get_output_wires(cell) == get_output_wires_from(cell, 1)

\* a compiled pattern is the set of signal names it accepts
matchesRegex(signal, re) == signal \in re

\* the bug this stands for: a needle position beyond the haystack's output
\* wires is skipped instead of rejected
RegexStep_skipMissing(solver, needleCell, haystackCell) ==
    LET needleOutputWires   == get_output_wires(needleCell)
        haystackOutputWires == get_output_wires(haystackCell)
    IN  needleCell.module \in DOMAIN solver.regexMap =>
            LET sig_regexes == solver.regexMap[needleCell.module]
            IN  \A i \in 1..Min(Len(needleOutputWires), Len(haystackOutputWires)) :
                    needleOutputWires[i].name \in DOMAIN sig_regexes =>
                        matchesRegex(haystackOutputWires[i].name,
                                     sig_regexes[needleOutputWires[i].name])

RegexStep(solver, needleCell, haystackCell) ==
    LET needleOutputWires   == get_output_wires(needleCell)
        haystackOutputWires == get_output_wires(haystackCell)
    IN  needleCell.module \in DOMAIN solver.regexMap =>
            LET sig_regexes == solver.regexMap[needleCell.module]
            IN  \A i \in 1..Len(needleOutputWires) :
                    needleOutputWires[i].name \in DOMAIN sig_regexes =>
                        /\ i <= Len(haystackOutputWires)
                        /\ matchesRegex(haystackOutputWires[i].name,
                                        sig_regexes[needleOutputWires[i].name])

\* log_assert(!needleCell && !haystackCell) fails, or a lookup throws
userCompareNodes_aborts(solver, needleCell, haystackCell, portMapping) ==
    IF needleCell.null \/ haystackCell.null
    THEN needleCell.null # haystackCell.null
    ELSE /\ ParamStep(solver, needleCell, haystackCell)
         /\ CellAttrStep(solver, needleCell, haystackCell)
         /\ Cardinality(solver.wire_attr) > 0
         /\ ~WireLookupsOk(needleCell, haystackCell, portMapping)

userCompareNodes(solver, needleCell, haystackCell, portMapping) ==
    IF needleCell.null \/ haystackCell.null THEN TRUE
    ELSE /\ ParamStep(solver, needleCell, haystackCell)
         /\ CellAttrStep(solver, needleCell, haystackCell)
         /\ WireAttrStep(solver, needleCell, haystackCell, portMapping)
         /\ RegexStep(solver, needleCell, haystackCell)

(***************************************************************************)
(* module2graph.                                                           *)
(*   module : [name, processes, selected, cells, wires, ports, sigmap]     *)
(*            sigmap maps <<wire name, offset>> of an aliased bit to its   *)
(*            canonical bit, as SigMap(mod) does                           *)
(*   graph  : [nodes, ports, conns, constants, externs]                    *)
(***************************************************************************)
EmptyGraph == [nodes |-> <<>>, ports |-> <<>>, conns |-> <<>>,
               constants |-> {}, externs |-> {}]

Y == "\\Y"

ConstNodeName(s) ==
    <<"$", "c", "o", "n", "s", "t", "$", s>>

ConstNodeIds == {ConstNodeName(s) : s \in States}

\* the bug this stands for: Sz is wired to the node of x
ConstNodeOf_zAsX(data) ==
    IF data = "0" THEN ConstNodeName("0")
    ELSE IF data = "1" THEN ConstNodeName("1")
    ELSE ConstNodeName("x")

\* the constant node a literal bit is wired to: S0, S1, Sz, and x otherwise
ConstNodeOf(data) ==
    IF data = "0" THEN ConstNodeName("0")
    ELSE IF data = "1" THEN ConstNodeName("1")
    ELSE IF data = "z" THEN ConstNodeName("z")
    ELSE ConstNodeName("x")

\* lines 42-56: the four constant nodes, their ports and extern marks
ConstNodes ==
    [nodes |-> [i \in 1..4 |->
                  [nodeId |-> ConstNodeName(<<"0", "1", "x", "z">>[i]),
                   typeId |-> ConstNodeName(<<"0", "1", "x", "z">>[i]),
                   userData |-> NullCell, shared |-> TRUE]],
     ports |-> [i \in 1..4 |->
                  [node |-> ConstNodeName(<<"0", "1", "x", "z">>[i]),
                   port |-> Y, width |-> 1]],
     conns |-> <<>>,
     constants |-> {},
     externs |-> {[node |-> ConstNodeName(s), port |-> Y, bit |-> 0] : s \in States}]

\* sigmap.apply on one bit
SigMapBit(mod, bit) ==
    IF ~bit.wire.null /\ <<bit.wire.name, bit.offset>> \in DOMAIN mod.sigmap
    THEN mod.sigmap[<<bit.wire.name, bit.offset>>]
    ELSE bit

\* the bug this stands for: the bits are told apart by their offset only
BitKey_offsetOnly(bit) == <<"", bit.offset>>

BitKey(bit) == <<bit.wire.name, bit.offset>>

\* sel == nullptr || sel->selected(mod, cell)
InScope(sel, cell) == ~sel \/ cell.selected

\* the pins of one cell, in the order the loops visit them
RECURSIVE CellPins(_, _, _, _)
CellPins(mod, cell, k, skipSplit) ==
    IF k > Len(cell.conns) THEN <<>>
    ELSE (IF <<cell.type, cell.conns[k].port>> \in skipSplit THEN <<>>
          ELSE [i \in 1..Len(cell.conns[k].sig) |->
                  [cell |-> cell.name, port |-> cell.conns[k].port, bit |-> i - 1,
                   sigbit |-> SigMapBit(mod, cell.conns[k].sig[i])]])
         \o CellPins(mod, cell, k + 1, skipSplit)

RECURSIVE ModulePins(_, _, _, _, _)
ModulePins(mod, k, inScope, sel, skipSplit) ==
    IF k > Len(mod.cells) THEN <<>>
    ELSE (IF InScope(sel, mod.cells[k]) = inScope
          THEN CellPins(mod, mod.cells[k], 1, skipSplit) ELSE <<>>)
         \o ModulePins(mod, k + 1, inScope, sel, skipSplit)

\* every (cell, connection, bit) position of a module
PinPositions(mod) ==
    UNION {UNION {{<<c, p, i>> : i \in 1..Len(mod.cells[c].conns[p].sig)} :
                    p \in 1..Len(mod.cells[c].conns)} :
             c \in 1..Len(mod.cells)}

\* the bug this stands for: the uses are counted before alias resolution
sig_use_count_noAlias(mod, sel, max_fanout, key) ==
    IF max_fanout > 0
    THEN Cardinality({pos \in PinPositions(mod) :
             LET cell == mod.cells[pos[1]]
                 bit == cell.conns[pos[2]].sig[pos[3]]
             IN  InScope(sel, cell) /\ ~bit.wire.null /\ BitKey(bit) = key})
    ELSE 0

\* lines 58-71: uses of every canonical wire bit by the cells in scope
sig_use_count(mod, sel, max_fanout, key) ==
    IF max_fanout > 0
    THEN LET pins == ModulePins(mod, 1, TRUE, sel, {})
         IN  Cardinality({i \in 1..Len(pins) :
                 ~pins[i].sigbit.wire.null /\ BitKey(pins[i].sigbit) = key})
    ELSE 0

\* lines 79-86: the node and the ports of one cell
NodeType(sel, cell) ==
    IF ~sel /\ begins_with(cell.type, <<"\\", "$">>) THEN Tail(cell.type)
    ELSE cell.type

RECURSIVE CellNodes(_, _, _)
CellNodes(mod, k, sel) ==
    IF k > Len(mod.cells) THEN <<>>
    ELSE (IF InScope(sel, mod.cells[k])
          THEN <<[nodeId |-> mod.cells[k].name, typeId |-> NodeType(sel, mod.cells[k]),
                  userData |-> mod.cells[k], shared |-> FALSE]>>
          ELSE <<>>)
         \o CellNodes(mod, k + 1, sel)

RECURSIVE CellPorts(_, _, _)
CellPorts(mod, k, sel) ==
    IF k > Len(mod.cells) THEN <<>>
    ELSE (IF InScope(sel, mod.cells[k])
          THEN [j \in 1..Len(mod.cells[k].conns) |->
                  [node |-> mod.cells[k].name, port |-> mod.cells[k].conns[j].port,
                   width |-> Len(mod.cells[k].conns[j].sig)]]
          ELSE <<>>)
         \o CellPorts(mod, k + 1, sel)

\* the bug this stands for: the reference is overwritten by every pin visited
PinStep_lastWriter(mod, constports, sel, max_fanout, st, pin) ==
    LET bit == pin.sigbit
    IN  IF bit.wire.null
        THEN IF constports
             THEN [st EXCEPT !.conns = Append(@,
                     [fromNode |-> pin.cell, fromPort |-> pin.port, fromBit |-> pin.bit,
                      toNode |-> ConstNodeOf(bit.data), toPort |-> Y, toBit |-> 0])]
             ELSE [st EXCEPT !.constants = @ \cup
                     {[node |-> pin.cell, port |-> pin.port, bit |-> pin.bit,
                       value |-> bit.data]}]
        ELSE IF max_fanout > 0
                /\ sig_use_count(mod, sel, max_fanout, BitKey(bit)) > max_fanout
        THEN st
        ELSE IF sel /\ ~bit.wire.selected
        THEN st
        ELSE LET ref == [cell |-> pin.cell, port |-> pin.port, bit |-> pin.bit]
             IN  [st EXCEPT
                    !.sig_bit_ref = [key \in DOMAIN st.sig_bit_ref \cup {BitKey(bit)} |->
                                        IF key = BitKey(bit) THEN ref
                                        ELSE st.sig_bit_ref[key]],
                    !.conns = Append(@,
                        [fromNode |-> ref.cell, fromPort |-> ref.port, fromBit |-> ref.bit,
                         toNode |-> pin.cell, toPort |-> pin.port, toBit |-> pin.bit])]

\* lines 94-132: one pin bit; st = [conns, constants, sig_bit_ref]
PinStep(mod, constports, sel, max_fanout, st, pin) ==
    LET bit == pin.sigbit
    IN  IF bit.wire.null
        THEN IF constports
             THEN [st EXCEPT !.conns = Append(@,
                     [fromNode |-> pin.cell, fromPort |-> pin.port, fromBit |-> pin.bit,
                      toNode |-> ConstNodeOf(bit.data), toPort |-> Y, toBit |-> 0])]
             ELSE [st EXCEPT !.constants = @ \cup
                     {[node |-> pin.cell, port |-> pin.port, bit |-> pin.bit,
                       value |-> bit.data]}]
        ELSE IF max_fanout > 0
                /\ sig_use_count(mod, sel, max_fanout, BitKey(bit)) > max_fanout
        THEN st
        ELSE IF sel /\ ~bit.wire.selected
        THEN st
        ELSE LET ref == IF BitKey(bit) \in DOMAIN st.sig_bit_ref
                        THEN st.sig_bit_ref[BitKey(bit)]
                        ELSE [cell |-> pin.cell, port |-> pin.port, bit |-> pin.bit]
             IN  [st EXCEPT
                    !.sig_bit_ref = [key \in DOMAIN st.sig_bit_ref \cup {BitKey(bit)} |->
                                        IF key = BitKey(bit) THEN ref
                                        ELSE st.sig_bit_ref[key]],
                    !.conns = Append(@,
                        [fromNode |-> ref.cell, fromPort |-> ref.port, fromBit |-> ref.bit,
                         toNode |-> pin.cell, toPort |-> pin.port, toBit |-> pin.bit])]

RECURSIVE PinWalk(_, _, _, _, _, _, _)
PinWalk(mod, constports, sel, max_fanout, pins, k, st) ==
    IF k > Len(pins) THEN st
    ELSE PinWalk(mod, constports, sel, max_fanout, pins, k + 1,
                 PinStep(mod, constports, sel, max_fanout, st, pins[k]))

\* the bug this stands for: the cells outside the selection are not looked at
ExternMarks_portsOnly(mod, sel, sig_bit_ref) ==
    LET byPorts == UNION {{BitKey(SigMapBit(mod,
                              [wire |-> mod.wires[w], offset |-> o, data |-> "x"])) :
                                 o \in 0..(mod.wires[w].width - 1)} :
                            w \in {v \in 1..Len(mod.wires) : mod.wires[v].port_id > 0}}
    IN  {[node |-> sig_bit_ref[key].cell, port |-> sig_bit_ref[key].port,
          bit |-> sig_bit_ref[key].bit] : key \in byPorts \cap DOMAIN sig_bit_ref}

\* lines 136-169: the driver references marked extern
ExternMarks(mod, sel, sig_bit_ref) ==
    LET outside == ModulePins(mod, 1, FALSE, sel, {})
        byCells == {BitKey(outside[i].sigbit) : i \in 1..Len(outside)}
        byPorts == UNION {{BitKey(SigMapBit(mod,
                              [wire |-> mod.wires[w], offset |-> o, data |-> "x"])) :
                                 o \in 0..(mod.wires[w].width - 1)} :
                            w \in {v \in 1..Len(mod.wires) : mod.wires[v].port_id > 0}}
    IN  {[node |-> sig_bit_ref[key].cell, port |-> sig_bit_ref[key].port,
          bit |-> sig_bit_ref[key].bit] :
            key \in (byCells \cup byPorts) \cap DOMAIN sig_bit_ref}

\* the bug this stands for: the test for unprocessed processes is missing
module2graph_noProcessCheck(graph, mod, constports, sel, max_fanout, split) ==
    IF sel /\ ~mod.selected THEN [ok |-> FALSE, graph |-> graph]
    ELSE LET base == IF constports
                     THEN [graph EXCEPT !.nodes = @ \o ConstNodes.nodes,
                                        !.ports = @ \o ConstNodes.ports,
                                        !.externs = @ \cup ConstNodes.externs]
                     ELSE graph
             st == PinWalk(mod, constports, sel, max_fanout,
                           ModulePins(mod, 1, TRUE, sel, split), 1,
                           [conns |-> base.conns, constants |-> base.constants,
                            sig_bit_ref |-> EmptyMap])
         IN  [ok |-> TRUE,
              graph |-> [nodes |-> base.nodes \o CellNodes(mod, 1, sel),
                         ports |-> base.ports \o CellPorts(mod, 1, sel),
                         conns |-> st.conns,
                         constants |-> st.constants,
                         externs |-> base.externs
                                     \cup ExternMarks(mod, sel, st.sig_bit_ref)]]

\* the bug this stands for: the constant nodes are created before the tests
\* that reject the module
module2graph_constFirst(graph, mod, constports, sel, max_fanout, split) ==
    LET base == IF constports
                THEN [graph EXCEPT !.nodes = @ \o ConstNodes.nodes,
                                   !.ports = @ \o ConstNodes.ports,
                                   !.externs = @ \cup ConstNodes.externs]
                ELSE graph
        st == PinWalk(mod, constports, sel, max_fanout,
                      ModulePins(mod, 1, TRUE, sel, split), 1,
                      [conns |-> base.conns, constants |-> base.constants,
                       sig_bit_ref |-> EmptyMap])
    IN  IF sel /\ ~mod.selected THEN [ok |-> FALSE, graph |-> base]
        ELSE IF mod.processes > 0 THEN [ok |-> FALSE, graph |-> base]
        ELSE [ok |-> TRUE,
              graph |-> [nodes |-> base.nodes \o CellNodes(mod, 1, sel),
                         ports |-> base.ports \o CellPorts(mod, 1, sel),
                         conns |-> st.conns,
                         constants |-> st.constants,
                         externs |-> base.externs
                                     \cup ExternMarks(mod, sel, st.sig_bit_ref)]]

module2graph(graph, mod, constports, sel, max_fanout, split) ==
    IF sel /\ ~mod.selected THEN [ok |-> FALSE, graph |-> graph]
    ELSE IF mod.processes > 0 THEN [ok |-> FALSE, graph |-> graph]
    ELSE LET base == IF constports
                     THEN [graph EXCEPT !.nodes = @ \o ConstNodes.nodes,
                                        !.ports = @ \o ConstNodes.ports,
                                        !.externs = @ \cup ConstNodes.externs]
                     ELSE graph
             st == PinWalk(mod, constports, sel, max_fanout,
                           ModulePins(mod, 1, TRUE, sel, split), 1,
                           [conns |-> base.conns, constants |-> base.constants,
                            sig_bit_ref |-> EmptyMap])
         IN  [ok |-> TRUE,
              graph |-> [nodes |-> base.nodes \o CellNodes(mod, 1, sel),
                         ports |-> base.ports \o CellPorts(mod, 1, sel),
                         conns |-> st.conns,
                         constants |-> st.constants,
                         externs |-> base.externs
                                     \cup ExternMarks(mod, sel, st.sig_bit_ref)]]

(***************************************************************************)
(* configure: the command line (args) and the CConfig paths.               *)
(*   cfgIn  : what the caller passes, already split into options          *)
(*   solver : [ignoreParameters, ignoredParams, cell_attr, wire_attr,      *)
(*             regexMap, compatibleTypes, swapPorts, swapPermutations,     *)
(*             graphData]                                                  *)
(***************************************************************************)
A == "\\A"
B == "\\B"

\* the port names in the order std::sort puts them
PortOrder == <<"\\A", "\\B", "\\C", "\\S", "\\Y">>

PortRank(p) == CHOOSE i \in 1..Len(PortOrder) : PortOrder[i] = p

Range(f) == {f[x] : x \in DOMAIN f}

\* std::sort on a vector of port names
RECURSIVE Insert(_, _)
Insert(sorted, p) ==
    IF sorted = <<>> THEN <<p>>
    ELSE IF PortRank(p) <= PortRank(Head(sorted)) THEN <<p>> \o sorted
    ELSE <<Head(sorted)>> \o Insert(Tail(sorted), p)

RECURSIVE Sort(_)
Sort(v) == IF v = <<>> THEN <<>> ELSE Insert(Sort(Tail(v)), Head(v))

\* the bug this stands for: the two sides compared as sets of names
PermValid_asSets(map_left, map_right) ==
    /\ Len(map_left) = Len(map_right)
    /\ Range(map_left) = Range(map_right)

\* lines 321-329 / 449-466: neither log_cmd_error is reached
PermValid(map_left, map_right) ==
    /\ Len(map_left) = Len(map_right)
    /\ Sort(map_left) = Sort(map_right)

\* lines 323-325: map[map_left[i]] = map_right[i], the last write wins
PermMap(map_left, map_right) ==
    [p \in Range(map_left) |->
        map_right[CHOOSE i \in 1..Len(map_left) :
                     /\ map_left[i] = p
                     /\ \A j \in (i + 1)..Len(map_left) : map_left[j] # p]]

NewSolver ==
    [ignoreParameters |-> FALSE, ignoredParams |-> {}, cell_attr |-> {},
     wire_attr |-> {}, regexMap |-> EmptyMap, compatibleTypes |-> {},
     swapPorts |-> {}, swapPermutations |-> {}, graphData |-> EmptyMap]

\* the bug this stands for: the gate-level types are left out of the defaults
DefaultSwapTypes_noGates ==
    {<<"$", "a", "n", "d">>, <<"$", "o", "r">>, <<"$", "x", "o", "r">>,
     <<"$", "x", "n", "o", "r">>, <<"$", "e", "q">>, <<"$", "n", "e">>,
     <<"$", "e", "q", "x">>, <<"$", "n", "e", "x">>, T_add,
     <<"$", "m", "u", "l">>,
     <<"$", "l", "o", "g", "i", "c", "_", "a", "n", "d">>,
     <<"$", "l", "o", "g", "i", "c", "_", "o", "r">>}

\* lines 357-374 / 491-509
DefaultSwapTypes ==
    {<<"$", "a", "n", "d">>, <<"$", "o", "r">>, <<"$", "x", "o", "r">>,
     <<"$", "x", "n", "o", "r">>, <<"$", "e", "q">>, <<"$", "n", "e">>,
     <<"$", "e", "q", "x">>, <<"$", "n", "e", "x">>, T_add,
     <<"$", "m", "u", "l">>,
     <<"$", "l", "o", "g", "i", "c", "_", "a", "n", "d">>,
     <<"$", "l", "o", "g", "i", "c", "_", "o", "r">>,
     T_AND, T_OR, <<"$", "_", "X", "O", "R", "_">>}

DefaultSwaps == {<<t, {A, B}>> : t \in DefaultSwapTypes}

\* the -perm / perm_ports loop: stops at the first declaration that
\* log_cmd_error rejects; the solver is as it was at that point
RECURSIVE AddPerms(_, _, _)
AddPerms(solver, perms, k) ==
    IF k > Len(perms) THEN [ok |-> TRUE, solver |-> solver]
    ELSE IF ~PermValid(perms[k].left, perms[k].right)
    THEN [ok |-> FALSE, solver |-> solver]
    ELSE AddPerms([solver EXCEPT !.swapPermutations = @ \cup
                       {<<perms[k].type, PermMap(perms[k].left, perms[k].right)>>}],
                  perms, k + 1)

\* everything configure registers besides the permutations
Registered(cfgIn) ==
    [NewSolver EXCEPT
        !.ignoreParameters = cfgIn.ignore_parameters,
        !.ignoredParams = cfgIn.ignore_param,
        !.cell_attr = cfgIn.cell_attr,
        !.wire_attr = cfgIn.wire_attr,
        !.compatibleTypes = cfgIn.compat,
        !.swapPorts = cfgIn.swaps]

\* SvqlPass::configure(args, argidx)
configure_args(cfgIn) ==
    LET r == AddPerms(Registered(cfgIn), cfgIn.perms, 1)
    IN  IF ~r.ok THEN [ok |-> FALSE, solver |-> r.solver]
        ELSE [ok |-> TRUE,
              solver |-> IF cfgIn.nodefaultswaps THEN r.solver
                         ELSE [r.solver EXCEPT !.swapPorts = @ \cup DefaultSwaps],
              pat_module_name |-> cfgIn.pat_module_name,
              constports |-> cfgIn.constports,
              nodefaultswaps |-> cfgIn.nodefaultswaps]

\* SvqlPass::configure(CConfig &): the pattern name is left empty
configure_cconfig(cfgIn) ==
    LET r == AddPerms(Registered(cfgIn), cfgIn.perms, 1)
    IN  IF ~r.ok THEN [ok |-> FALSE, solver |-> r.solver]
        ELSE [ok |-> TRUE,
              solver |-> IF cfgIn.nodefaultswaps THEN r.solver
                         ELSE [r.solver EXCEPT !.swapPorts = @ \cup DefaultSwaps],
              pat_module_name |-> <<>>,
              constports |-> cfgIn.constports,
              nodefaultswaps |-> cfgIn.nodefaultswaps]

(***************************************************************************)
(* SubCircuit::Solver, the library the driver calls (spec section 4.3):    *)
(* a backtracking search over the needle nodes in declaration order.  Two  *)
(* pins are connected when the graph's connections join them into one net. *)
(***************************************************************************)
Pin(node, port, bit) == [node |-> node, port |-> port, bit |-> bit]

\* the pins joined to the pins of S by one connection
Joined(g, S) ==
    S \cup {Pin(g.conns[i].toNode, g.conns[i].toPort, g.conns[i].toBit) :
               i \in {k \in 1..Len(g.conns) :
                        Pin(g.conns[k].fromNode, g.conns[k].fromPort, g.conns[k].fromBit) \in S}}
      \cup {Pin(g.conns[i].fromNode, g.conns[i].fromPort, g.conns[i].fromBit) :
               i \in {k \in 1..Len(g.conns) :
                        Pin(g.conns[k].toNode, g.conns[k].toPort, g.conns[k].toBit) \in S}}

RECURSIVE NetOf(_, _)
NetOf(g, S) == IF Joined(g, S) = S THEN S ELSE NetOf(g, Joined(g, S))

SameNet(g, p, q) == q \in NetOf(g, {p})

NodeIdx(g, nodeId) == CHOOSE i \in 1..Len(g.nodes) : g.nodes[i].nodeId = nodeId

NodePorts(g, nodeId) ==
    {g.ports[i].port : i \in {k \in 1..Len(g.ports) : g.ports[k].node = nodeId}}

PortWidth(g, nodeId, port) ==
    g.ports[CHOOSE i \in 1..Len(g.ports) :
               g.ports[i].node = nodeId /\ g.ports[i].port = port].width

TypesCompatible(solver, needleType, haystackType) ==
    needleType = haystackType \/ <<needleType, haystackType>> \in solver.compatibleTypes

\* the rearrangements of a node's ports inside its swappable port sets
GroupPerms(solver, type, ports) ==
    {f \in [ports -> ports] :
        /\ \A p, q \in ports : f[p] = f[q] => p = q
        /\ \A p \in ports :
              f[p] # p => \E sw \in solver.swapPorts :
                              sw[1] = type /\ p \in sw[2] /\ f[p] \in sw[2]}

ApplyPerm(m, p) == IF p \in DOMAIN m THEN m[p] ELSE p

\* the needle-port -> haystack-port mappings the registry allows
PortMappings(solver, type, ports) ==
    {[p \in ports |-> ApplyPerm(m, f[p])] :
        f \in GroupPerms(solver, type, ports),
        m \in {EmptyMap} \cup {sp[2] : sp \in {x \in solver.swapPermutations : x[1] = type}}}

\* one needle node against one haystack node under a port mapping
NodeOk(solver, ng, hg, i, j, pm) ==
    LET n == ng.nodes[i]
        h == hg.nodes[j]
    IN  /\ TypesCompatible(solver, n.typeId, h.typeId)
        /\ \A p \in NodePorts(ng, n.nodeId) :
              /\ pm[p] \in NodePorts(hg, h.nodeId)
              /\ PortWidth(hg, h.nodeId, pm[p]) = PortWidth(ng, n.nodeId, p)
        /\ \A c \in ng.constants :
              c.node = n.nodeId =>
                  [node |-> h.nodeId, port |-> pm[c.port], bit |-> c.bit,
                   value |-> c.value] \in hg.constants
        /\ userCompareNodes(solver, n.userData, h.userData, pm)

\* every needle connection among the mapped nodes has its image
EdgesOk(ng, hg, partial, pms) ==
    \A k \in 1..Len(ng.conns) :
        LET c  == ng.conns[k]
            a  == NodeIdx(ng, c.fromNode)
            b  == NodeIdx(ng, c.toNode)
        IN  a <= Len(partial) /\ b <= Len(partial) =>
                SameNet(hg,
                        Pin(hg.nodes[partial[a]].nodeId, pms[a][c.fromPort], c.fromBit),
                        Pin(hg.nodes[partial[b]].nodeId, pms[b][c.toPort], c.toBit))

RECURSIVE ExistsMapping(_, _, _, _, _)
ExistsMapping(solver, ng, hg, partial, pms) ==
    IF Len(pms) = Len(partial) THEN EdgesOk(ng, hg, partial, pms)
    ELSE LET i == Len(pms) + 1
         IN  \E pm \in PortMappings(solver, ng.nodes[i].typeId,
                                    NodePorts(ng, ng.nodes[i].nodeId)) :
                 /\ NodeOk(solver, ng, hg, i, partial[i], pm)
                 /\ ExistsMapping(solver, ng, hg, partial, Append(pms, pm))

\* the bug this stands for: a haystack node already taken is tried again
Candidate_reuse(solver, ng, hg, partial, j) ==
    ExistsMapping(solver, ng, hg, Append(partial, j), <<>>)

\* haystack node j extends the partial mapping
Candidate(solver, ng, hg, partial, j) ==
    /\ \A i \in 1..Len(partial) : partial[i] # j
    /\ ExistsMapping(solver, ng, hg, Append(partial, j), <<>>)

RECURSIVE Search(_, _, _, _)
RECURSIVE Candidates(_, _, _, _, _)
Search(solver, ng, hg, partial) ==
    IF Len(partial) = Len(ng.nodes) THEN <<partial>>
    ELSE Candidates(solver, ng, hg, partial, 1)

Candidates(solver, ng, hg, partial, j) ==
    IF j > Len(hg.nodes) THEN <<>>
    ELSE (IF Candidate(solver, ng, hg, partial, j)
          THEN Search(solver, ng, hg, Append(partial, j)) ELSE <<>>)
         \o Candidates(solver, ng, hg, partial, j + 1)

\* the haystack nodes of a mapping that a later match may not use again
Taken(hg, partial) ==
    {partial[i] : i \in {k \in 1..Len(partial) : ~hg.nodes[partial[k]].shared}}

\* allowOverlap == false: a mapping that uses a taken node is dropped
RECURSIVE DropOverlaps(_, _, _, _)
DropOverlaps(hg, found, k, used) ==
    IF k > Len(found) THEN <<>>
    ELSE IF Taken(hg, found[k]) \cap used # {}
    THEN DropOverlaps(hg, found, k + 1, used)
    ELSE <<found[k]>> \o DropOverlaps(hg, found, k + 1, used \cup Taken(hg, found[k]))

MakeResult(needleGraphId, haystackGraphId, ng, hg, partial) ==
    [needleGraphId |-> needleGraphId,
     haystackGraphId |-> haystackGraphId,
     mappings |-> [id \in {ng.nodes[i].nodeId : i \in 1..Len(ng.nodes)} |->
                     [needleNodeId |-> id,
                      haystackNodeId |-> hg.nodes[partial[NodeIdx(ng, id)]].nodeId,
                      needleUserData |-> ng.nodes[NodeIdx(ng, id)].userData,
                      haystackUserData |-> hg.nodes[partial[NodeIdx(ng, id)]].userData]]]

\* Solver::solve(results, needleGraphId, haystackGraphId, allowOverlap)
solve(solver, needleGraphId, haystackGraphId, allowOverlap) ==
    LET ng    == solver.graphData[needleGraphId]
        hg    == solver.graphData[haystackGraphId]
        all   == Search(solver, ng, hg, <<>>)
        found == IF allowOverlap THEN all ELSE DropOverlaps(hg, all, 1, {})
    IN  [k \in 1..Len(found) |->
            MakeResult(needleGraphId, haystackGraphId, ng, hg, found[k])]

(***************************************************************************)
(* Inputs: cell types, parameter values.                                   *)
(***************************************************************************)
RECURSIVE ConstsOfLen(_)
ConstsOfLen(n) ==
    IF n = 0 THEN {<<>>}
    ELSE {Append(v, b) : v \in ConstsOfLen(n - 1), b \in States}

Zeros(n) == [i \in 1..n |-> "0"]

\* short constants, and constants one bit wider than an int whose top two
\* bits vary (the sign bit and the first bit as_int drops)
UniValues ==
    UNION {ConstsOfLen(n) : n \in 0..MaxConstLen}
    \cup {Zeros(ConstWidth - 1) \o v : v \in ConstsOfLen(2)}

UniTypes == {T_add, T_AND, T_user, <<"$">>, <<>>}

UniParams == BoolParams \cup IntParams \cup {"LUT", "INIT"}

(***************************************************************************)
(* SpecUnify: unifiedParam applied once, then to its own result.           *)
(***************************************************************************)
UniIdle == [pc |-> "off"]

CmpIdle == [pc |-> "off"]

RqIdle == [pc |-> "off"]

MgIdle == [pc |-> "off"]

InitUnify ==
    /\ uni \in [pc : {"in"}, cell_type : UniTypes, param : UniParams,
                value : UniValues, once : {<<>>}, twice : {<<>>}]
    /\ cmp = CmpIdle
    /\ rq = RqIdle
    /\ mg = MgIdle

UnifyOnce ==
    /\ uni.pc = "in"
    /\ uni' = [uni EXCEPT !.pc = "once",
                          !.once = unifiedParam(uni.cell_type, uni.param, uni.value)]
    /\ UNCHANGED <<cmp, rq, mg>>

UnifyTwice ==
    /\ uni.pc = "once"
    /\ uni' = [uni EXCEPT !.pc = "twice",
                          !.twice = unifiedParam(uni.cell_type, uni.param, uni.once)]
    /\ UNCHANGED <<cmp, rq, mg>>

NextUnify == UnifyOnce \/ UnifyTwice

SpecUnify == InitUnify /\ [][NextUnify]_vars

(***************************************************************************)
(* SpecCompare: userCompareNodes called on one pair of cells.              *)
(***************************************************************************)
CmpParamNames == {"WIDTH", "LUT"}

CmpValues == {<<"0">>, <<"1">>, <<"x">>, <<"1", "0">>}

CmpAttrValues == {<<"0">>, <<"1">>}

\* the maps from at most n of the names to the values
PartialMaps(names, values, n) ==
    UNION {[S -> values] : S \in {T \in SUBSET names : Cardinality(T) <= n}}

CmpCells ==
    {[null |-> FALSE, name |-> "c", type |-> t, parameters |-> ps,
      attributes |-> as, conns |-> <<>>, outputs |-> {}, module |-> "mod",
      selected |-> TRUE] :
        t \in {T_add, T_user},
        ps \in PartialMaps(CmpParamNames, CmpValues, MaxParams),
        as \in PartialMaps({"keep"}, CmpAttrValues, 1)}
    \cup {NullCell}

CmpSolvers ==
    [ignoreParameters : BOOLEAN,
     ignoredParams : {{}, {<<T_add, "WIDTH">>}},
     cell_attr : {{}, {"keep"}, {"keep", "src"}},
     wire_attr : {{}},
     regexMap : {EmptyMap}]

InitCompare ==
    /\ cmp \in [pc : {"call"}, solver : CmpSolvers]
    /\ uni = UniIdle
    /\ rq = RqIdle
    /\ mg = MgIdle

Compare ==
    /\ cmp.pc = "call"
    /\ \E n \in CmpCells, h \in CmpCells :
        cmp' = [pc |-> "done", solver |-> cmp.solver, needle |-> n, haystack |-> h,
                result |->
                    IF userCompareNodes_aborts(cmp.solver, n, h, EmptyMap) THEN "abort"
                    ELSE IF userCompareNodes(cmp.solver, n, h, EmptyMap) THEN "true"
                    ELSE "false"]
    /\ UNCHANGED <<uni, rq, mg>>

NextCompare == Compare

SpecCompare == InitCompare /\ [][NextCompare]_vars

CmpBothCells == cmp.pc = "done" /\ ~cmp.needle.null /\ ~cmp.haystack.null

(***************************************************************************)
(* SpecAttr: userCompareNodes on cells that differ in their attributes     *)
(* only, under every configured set of cell attribute names.               *)
(***************************************************************************)
AttrNames == {"keep", "src"}

AttrCells ==
    {[null |-> FALSE, name |-> "c", type |-> T_AND, parameters |-> EmptyMap,
      attributes |-> as, conns |-> <<>>, outputs |-> {}, module |-> "mod",
      selected |-> TRUE] :
        as \in PartialMaps(AttrNames, CmpAttrValues, Cardinality(AttrNames))}

AttrSolvers ==
    [ignoreParameters : {FALSE},
     ignoredParams : {{}},
     cell_attr : SUBSET (AttrNames \cup {"init"}),
     wire_attr : {{}},
     regexMap : {EmptyMap}]

InitAttr ==
    /\ cmp \in [pc : {"attr"}, solver : AttrSolvers]
    /\ uni = UniIdle
    /\ rq = RqIdle
    /\ mg = MgIdle

CompareAttrs ==
    /\ cmp.pc = "attr"
    /\ \E n \in AttrCells, h \in AttrCells :
        cmp' = [pc |-> "attr_done", solver |-> cmp.solver, needle |-> n,
                haystack |-> h,
                step |-> CellAttrStep(cmp.solver, n, h),
                result |->
                    IF userCompareNodes_aborts(cmp.solver, n, h, EmptyMap) THEN "abort"
                    ELSE IF userCompareNodes(cmp.solver, n, h, EmptyMap) THEN "true"
                    ELSE "false"]
    /\ UNCHANGED <<uni, rq, mg>>

NextAttr == CompareAttrs

SpecAttr == InitAttr /\ [][NextAttr]_vars

(***************************************************************************)
(* SvqlPass::run_query: names, lookups and the folding of Results.         *)
(*   design : the sequence of its modules, in the order modules() yields   *)
(***************************************************************************)
\* the characters of the names in use, in the order of their char codes
CharOrder ==
    <<"$", "0", "1", "2", "3", "4", "5", "6", "7", "8", "9",
      "A", "B", "C", "D", "E", "F", "G", "H", "I", "J", "K", "L", "M",
      "N", "O", "P", "Q", "R", "S", "T", "U", "V", "W", "X", "Y", "Z",
      "\\", "_",
      "a", "b", "c", "d", "e", "f", "g", "h", "i", "j", "k", "l", "m",
      "n", "o", "p", "q", "r", "s", "t", "u", "v", "w", "x", "y", "z">>

CharRank(c) == CHOOSE i \in 1..Len(CharOrder) : CharOrder[i] = c

\* operator< on std::string
RECURSIVE StrLess(_, _)
StrLess(s, t) ==
    IF t = <<>> THEN FALSE
    ELSE IF s = <<>> THEN TRUE
    ELSE IF Head(s) # Head(t) THEN CharRank(Head(s)) < CharRank(Head(t))
    ELSE StrLess(Tail(s), Tail(t))

\* the keys of a std::map<std::string, _> in the order its iteration yields
RECURSIVE KeysInOrder(_)
KeysInOrder(keys) ==
    IF keys = {} THEN <<>>
    ELSE LET least == CHOOSE k \in keys : \A o \in keys \ {k} : StrLess(k, o)
         IN  <<least>> \o KeysInOrder(keys \ {least})

Digits == {"0", "1", "2", "3", "4", "5", "6", "7", "8", "9"}

\* RTLIL::unescape_id
unescape_id(str) ==
    IF Len(str) < 2 THEN str
    ELSE IF str[1] # "\\" THEN str
    ELSE IF str[2] = "$" \/ str[2] = "\\" THEN str
    ELSE IF str[2] \in Digits THEN str
    ELSE Tail(str)

Prefix_needle == <<"n", "e", "e", "d", "l", "e", "_">>

Prefix_haystack == <<"h", "a", "y", "s", "t", "a", "c", "k", "_">>

\* name.compare(0, len, str) == 0
compare0(name, len, str) == SubSeq(name, 1, Min(len, Len(name))) = str

\* name.substr(pos); pos > size() throws
substr(name, pos) == SubSeq(name, pos + 1, Len(name))

escape_needle_name(name) ==
    IF compare0(name, 7, Prefix_needle) THEN substr(name, 7)
    ELSE IF compare0(name, 8, Prefix_haystack) THEN substr(name, 8)
    ELSE name

\* Design::module(name): the module of that name, or none
HasModule(design, name) == \E i \in 1..Len(design) : design[i].name = name

ModuleOf(design, name) ==
    design[CHOOSE i \in 1..Len(design) : design[i].name = name]

\* the connections of a cell sorted by port name
RECURSIVE InsertConn(_, _)
InsertConn(sorted, c) ==
    IF sorted = <<>> THEN <<c>>
    ELSE IF PortRank(c.port) < PortRank(Head(sorted).port) THEN <<c>> \o sorted
    ELSE <<Head(sorted)>> \o InsertConn(Tail(sorted), c)

RECURSIVE SortConns(_, _)
SortConns(conns, k) ==
    IF k > Len(conns) THEN <<>>
    ELSE InsertConn(SortConns(conns, k + 1), conns[k])

\* the wires of the bits of a signal that are wire bits
RECURSIVE SigWires(_, _)
SigWires(sig, k) ==
    IF k > Len(sig) THEN <<>>
    ELSE (IF sig[k].wire.null THEN <<>> ELSE <<sig[k].wire>>) \o SigWires(sig, k + 1)

RECURSIVE ConnWires(_, _)
ConnWires(sorted, k) ==
    IF k > Len(sorted) THEN <<>>
    ELSE SigWires(sorted[k].sig, 1) \o ConnWires(sorted, k + 1)

get_cell_wires(cell) == ConnWires(SortConns(cell.conns, 1), 1)

\* the bug this stands for: every wire pair is reported, boundary port or not
RECURSIVE ReportedPorts_all(_, _, _, _)
ReportedPorts_all(needle_ports, nw, hw, j) ==
    IF j > Min(Len(nw), Len(hw)) THEN <<>>
    ELSE <<[needle |-> nw[j].name, haystack |-> hw[j].name]>>
         \o ReportedPorts_all(needle_ports, nw, hw, j + 1)

\* lines 622-640: the wire pairs of one cell pair that are reported
RECURSIVE ReportedPorts(_, _, _, _)
ReportedPorts(needle_ports, nw, hw, j) ==
    IF j > Min(Len(nw), Len(hw)) THEN <<>>
    ELSE (IF nw[j].name \in needle_ports
          THEN <<[needle |-> nw[j].name, haystack |-> hw[j].name]>> ELSE <<>>)
         \o ReportedPorts(needle_ports, nw, hw, j + 1)

\* lines 604-641: one Result folded into a Match, its mappings in key order
RECURSIVE FoldMappings(_, _, _, _, _)
FoldMappings(needle_ports, result, keys, k, match) ==
    IF k > Len(keys) THEN match
    ELSE LET m == result.mappings[keys[k]]
             needleCell == m.needleUserData
             graphCell  == m.haystackUserData
         IN  FoldMappings(needle_ports, result, keys, k + 1,
                 [cells |-> Append(match.cells,
                                [needle |-> escape_needle_name(needleCell.name),
                                 haystack |-> escape_needle_name(graphCell.name)]),
                  ports |-> match.ports \o
                                ReportedPorts(needle_ports, get_cell_wires(needleCell),
                                              get_cell_wires(graphCell), 1)])

\* a mapping whose user data is null: the fold dereferences it
DerefsNull(result) ==
    \E id \in DOMAIN result.mappings :
        result.mappings[id].needleUserData.null
        \/ result.mappings[id].haystackUserData.null

\* the Results without the mappings of the constant nodes
WithoutNull(result) ==
    [result EXCEPT !.mappings =
        [id \in {i \in DOMAIN result.mappings :
                    ~result.mappings[i].needleUserData.null
                    /\ ~result.mappings[i].haystackUserData.null} |->
            result.mappings[id]]]

FoldResult(needle_ports, result) ==
    FoldMappings(needle_ports, WithoutNull(result),
                 KeysInOrder(DOMAIN WithoutNull(result).mappings), 1,
                 [cells |-> <<>>, ports |-> <<>>])

(***************************************************************************)
(* The designs of the model: gate-level modules of $_AND_ cells.           *)
(***************************************************************************)
Wire(name, port_id) ==
    [null |-> FALSE, name |-> name, width |-> 1, port_id |-> port_id,
     attributes |-> EmptyMap, selected |-> TRUE]

WireBit(name, port_id) == [wire |-> Wire(name, port_id), offset |-> 0, data |-> "x"]

ConstBit(s) == [wire |-> NullWire, offset |-> 0, data |-> s]

Gate(modname, name, attrs, a, b, y) ==
    [null |-> FALSE, name |-> <<"\\", name[1], name[2]>>, type |-> T_AND,
     parameters |-> EmptyMap, attributes |-> attrs,
     conns |-> <<[port |-> A, sig |-> <<a>>], [port |-> B, sig |-> <<b>>],
                 [port |-> Y, sig |-> <<y>>]>>,
     outputs |-> {Y}, module |-> modname, selected |-> TRUE]

Module(name, processes, selected, cells, wires) ==
    [name |-> name, processes |-> processes, selected |-> selected,
     cells |-> cells, wires |-> wires,
     ports |-> {wires[i].name : i \in {k \in 1..Len(wires) : wires[k].port_id > 0}},
     sigmap |-> EmptyMap]

Wa == WireBit("\\a", 1)
Wb == WireBit("\\b", 2)
Wc == WireBit("\\c", 3)
Wd == WireBit("\\d", 4)
Wy == WireBit("\\y", 5)
Wz == WireBit("\\z", 6)
Wt == WireBit("\\t", 0)

Name_and   == <<"\\", "a", "n", "d">>
Name_two   == <<"\\", "t", "w", "o">>
Name_chain == <<"\\", "c", "h", "n">>
Name_proc  == <<"\\", "p", "r", "c">>
Name_const == <<"\\", "c", "s", "t">>
Name_none  == <<"\\", "n", "o">>

\* one AND gate between ports
N_and ==
    Module(Name_and, 0, TRUE, <<Gate(Name_and, <<"g", "1">>, EmptyMap, Wa, Wb, Wy)>>,
           <<Wa.wire, Wb.wire, Wy.wire>>)

\* two AND gates that share no wire
N_two ==
    Module(Name_two, 0, TRUE,
           <<Gate(Name_two, <<"g", "1">>, EmptyMap, Wa, Wb, Wy),
             Gate(Name_two, <<"g", "2">>, EmptyMap, Wc, Wd, Wz)>>,
           <<Wa.wire, Wb.wire, Wc.wire, Wd.wire, Wy.wire, Wz.wire>>)

\* g1 drives input A of g2 over the internal wire t
N_chain ==
    Module(Name_chain, 0, TRUE,
           <<Gate(Name_chain, <<"g", "1">>, EmptyMap, Wa, Wb, Wt),
             Gate(Name_chain, <<"g", "2">>, EmptyMap, Wt, Wc, Wy)>>,
           <<Wa.wire, Wb.wire, Wc.wire, Wy.wire, Wt.wire>>)

\* a module that still has a process
N_proc ==
    Module(Name_proc, 1, TRUE, <<Gate(Name_proc, <<"g", "1">>, EmptyMap, Wa, Wb, Wy)>>,
           <<Wa.wire, Wb.wire, Wy.wire>>)

\* input B tied to the constant 1
N_const ==
    Module(Name_const, 0, TRUE,
           <<Gate(Name_const, <<"g", "1">>, EmptyMap, Wa, ConstBit("1"), Wy)>>,
           <<Wa.wire, Wy.wire>>)

NeedleDesign == <<N_and, N_two, N_chain, N_proc, N_const>>

PatNames == {Name_and, Name_two, Name_chain, Name_proc, Name_const, Name_none}

HName(c) == <<"\\", "h", c>>

H_and ==
    Module(HName("a"), 0, TRUE, <<Gate(HName("a"), <<"u", "1">>, EmptyMap, Wa, Wb, Wy)>>,
           <<Wa.wire, Wb.wire, Wy.wire>>)

\* the consumer is listed first and takes the internal wire on input B
H_chain ==
    Module(HName("c"), 0, TRUE,
           <<Gate(HName("c"), <<"u", "2">>, EmptyMap, Wc, Wt, Wy),
             Gate(HName("c"), <<"u", "1">>, EmptyMap, Wa, Wb, Wt)>>,
           <<Wa.wire, Wb.wire, Wc.wire, Wy.wire, Wt.wire>>)

H_proc ==
    Module(HName("p"), 1, TRUE, <<Gate(HName("p"), <<"u", "1">>, EmptyMap, Wa, Wb, Wy)>>,
           <<Wa.wire, Wb.wire, Wy.wire>>)

H_unsel ==
    Module(HName("u"), 0, FALSE, <<Gate(HName("u"), <<"u", "1">>, EmptyMap, Wa, Wb, Wy)>>,
           <<Wa.wire, Wb.wire, Wy.wire>>)

H_attr ==
    Module(HName("k"), 0, TRUE,
           <<Gate(HName("k"), <<"u", "1">>, [n \in {"keep"} |-> <<"1">>], Wa, Wb, Wy)>>,
           <<Wa.wire, Wb.wire, Wy.wire>>)

H_const ==
    Module(HName("b"), 0, TRUE,
           <<Gate(HName("b"), <<"u", "1">>, EmptyMap, Wa, ConstBit("1"), Wy)>>,
           <<Wa.wire, Wy.wire>>)

HayModules == {H_and, H_chain, H_proc, H_unsel, H_attr, H_const}

\* the designs: up to MaxHayModules distinct modules in any order
HayDesigns ==
    {d \in UNION {[1..n -> HayModules] : n \in 0..MaxHayModules} :
        \A i, j \in 1..Len(d) : i # j => d[i] # d[j]}

\* the sequences of the two input port names of length at most n
PortLists(n) == UNION {[1..k -> {A, B}] : k \in 0..n}

BaseCfg ==
    [path |-> "args", pat_module_name |-> Name_chain, constports |-> FALSE,
     nodefaultswaps |-> FALSE, perms |-> <<>>, ignore_parameters |-> FALSE,
     ignore_param |-> {}, cell_attr |-> {}, wire_attr |-> {}, compat |-> {},
     swaps |-> {}]

\* queries that vary the pattern, the design and the flags
DesignInputs ==
    {[cfg |-> [BaseCfg EXCEPT !.pat_module_name = pat, !.constports = cp,
                              !.nodefaultswaps = nds, !.cell_attr = ca],
      needle_design |-> NeedleDesign, design |-> d, later |-> <<>>] :
        pat \in PatNames, cp \in BOOLEAN, nds \in BOOLEAN,
        ca \in {{}, {"keep"}}, d \in HayDesigns}

SwapAB == [type |-> T_AND, left |-> <<A, B>>, right |-> <<B, A>>]

\* queries that vary the permutation declarations, on both configure paths
PermInputs ==
    {[cfg |-> [BaseCfg EXCEPT !.path = path, !.perms = before \o <<[type |-> T_AND,
                                                    left |-> l, right |-> r]>>,
                              !.nodefaultswaps = TRUE],
      needle_design |-> NeedleDesign, design |-> <<H_chain>>, later |-> <<>>] :
        path \in {"args", "cconfig"}, before \in {<<>>, <<SwapAB>>},
        l \in PortLists(MaxPermLen), r \in PortLists(MaxPermLen)}

\* queries that vary how the swap of inputs A and B is made available, on
\* both configure paths, for the chain pattern
SwapInputs ==
    {[cfg |-> [BaseCfg EXCEPT !.path = path, !.nodefaultswaps = nds,
                              !.perms = perms, !.swaps = swaps],
      needle_design |-> NeedleDesign, design |-> <<H_chain>>, later |-> <<>>] :
        path \in {"args", "cconfig"}, nds \in BOOLEAN,
        perms \in {<<>>, <<SwapAB>>},
        swaps \in {{}, {<<T_AND, {A, B}>>}, {<<T_OR, {A, B}>>}}}

\* the designs of the calls of run_query that follow the first one on the
\* same SvqlConfig
MaxCalls == 2

RECURSIVE LaterDesigns(_)
LaterDesigns(n) ==
    IF n = 0 THEN {<<>>}
    ELSE {<<>>} \cup {<<d>> \o ds : d \in {<<>>, <<H_and>>}, ds \in LaterDesigns(n - 1)}

\* queries run more than once on one SvqlConfig
AgainInputs ==
    {[cfg |-> [BaseCfg EXCEPT !.pat_module_name = pat],
      needle_design |-> NeedleDesign, design |-> d, later |-> ds] :
        pat \in {Name_and, Name_proc}, d \in {<<H_and>>, <<H_chain>>},
        ds \in LaterDesigns(MaxCalls - 1) \ {<<>>}}

(***************************************************************************)
(* Spec: configure on either path, then one run_query.                     *)
(*   rq.built  : the graph names module2graph was called for               *)
(*   rq.added  : the graph names passed to addGraph                        *)
(*   rq.solved : the <<needle id, haystack id>> pairs passed to solve      *)
(***************************************************************************)
NoConfig ==
    [ok |-> FALSE, solver |-> NewSolver, pat_module_name |-> <<>>,
     constports |-> FALSE, nodefaultswaps |-> FALSE]

NullList == [null |-> TRUE, matches |-> <<>>]

MapPut(m, k, v) == [x \in DOMAIN m \cup {k} |-> IF x = k THEN v ELSE m[x]]

RqStart(input) ==
    [pc |-> "start", input |-> input, config |-> NoConfig,
     needle |-> <<>>, needle_ports |-> {}, needle_map |-> EmptyMap,
     haystack_map |-> EmptyMap, hidx |-> 1, results |-> <<>>, ret |-> NullList,
     errors |-> 0, built |-> <<>>, added |-> <<>>, solved |-> <<>>,
     call |-> 1, before |-> {}]

Init ==
    /\ uni = UniIdle
    /\ cmp = CmpIdle
    /\ mg = MgIdle
    /\ \E input \in DesignInputs \cup PermInputs \cup SwapInputs \cup AgainInputs :
          rq = RqStart(input)

\* configure(args, argidx) or configure(CConfig &); log_cmd_error ends it
Configure ==
    /\ rq.pc = "start"
    /\ LET r == IF rq.input.cfg.path = "args" THEN configure_args(rq.input.cfg)
                ELSE configure_cconfig(rq.input.cfg)
       IN  rq' = IF r.ok
                 THEN [rq EXCEPT !.pc = "configured", !.config = r]
                 ELSE [rq EXCEPT !.pc = "config_error", !.errors = @ + 1,
                                 !.config = [NoConfig EXCEPT !.solver = r.solver]]
    /\ UNCHANGED <<uni, cmp, mg>>

\* the caller of configure(CConfig &) fills in the pattern name it left empty
SetPattern ==
    /\ rq.pc = "configured"
    /\ rq.input.cfg.path = "cconfig"
    /\ rq.config.pat_module_name = <<>>
    /\ rq' = [rq EXCEPT !.config.pat_module_name = rq.input.cfg.pat_module_name]
    /\ UNCHANGED <<uni, cmp, mg>>

\* the bug this stands for: a name that resolves to nothing is reported
\* and the query goes on, with the first module of the needle design
RQ_Lookup_notFatal ==
    /\ rq.pc = "configured"
    /\ LET found == HasModule(rq.input.needle_design, rq.config.pat_module_name)
           needle == IF found
                     THEN ModuleOf(rq.input.needle_design, rq.config.pat_module_name)
                     ELSE rq.input.needle_design[1]
       IN  rq' = [rq EXCEPT !.pc = "needle_graph", !.needle = needle,
                            !.needle_ports = needle.ports,
                            !.errors = IF found THEN @ ELSE @ + 1]
    /\ UNCHANGED <<uni, cmp, mg>>

\* lines 537-554: the needle module and its ports
RQ_Lookup ==
    /\ rq.pc = "configured"
    /\ rq' = IF ~HasModule(rq.input.needle_design, rq.config.pat_module_name)
             THEN [rq EXCEPT !.pc = "failed", !.errors = @ + 1, !.ret = NullList]
             ELSE LET needle == ModuleOf(rq.input.needle_design,
                                         rq.config.pat_module_name)
                  IN  [rq EXCEPT !.pc = "needle_graph", !.needle = needle,
                                 !.needle_ports = needle.ports]
    /\ UNCHANGED <<uni, cmp, mg>>

NeedleGraphName(needle) == Prefix_needle \o unescape_id(needle.name)

HaystackGraphName(module) == Prefix_haystack \o unescape_id(module.name)

AfterGraphs(hidx, design) == IF hidx > Len(design) THEN "solve" ELSE "haystack_graphs"

\* addGraph is about to be called with a name the solver already holds
NeedleAddedTwice ==
    /\ module2graph(EmptyGraph, rq.needle, rq.config.constports, FALSE, -1, {}).ok
    /\ NeedleGraphName(rq.needle) \in DOMAIN rq.config.solver.graphData

HaystackAddedTwice ==
    /\ module2graph(EmptyGraph, rq.input.design[rq.hidx], rq.config.constports,
                    TRUE, -1, {}).ok
    /\ HaystackGraphName(rq.input.design[rq.hidx])
         \in DOMAIN rq.config.solver.graphData

\* lines 559-567
RQ_NeedleGraph ==
    /\ rq.pc = "needle_graph"
    /\ ~NeedleAddedTwice
    /\ LET graph_name == NeedleGraphName(rq.needle)
           r == module2graph(EmptyGraph, rq.needle, rq.config.constports,
                             FALSE, -1, {})
           next == AfterGraphs(1, rq.input.design)
       IN  rq' = IF r.ok
                 THEN [rq EXCEPT !.pc = next,
                          !.built = Append(@, graph_name),
                          !.added = Append(@, graph_name),
                          !.config.solver.graphData = MapPut(@, graph_name, r.graph),
                          !.needle_map = MapPut(@, graph_name, rq.needle)]
                 ELSE [rq EXCEPT !.pc = next, !.built = Append(@, graph_name)]
    /\ UNCHANGED <<uni, cmp, mg>>

\* lines 569-580: one turn of the loop over design->modules()
RQ_HaystackGraph ==
    /\ rq.pc = "haystack_graphs"
    /\ ~HaystackAddedTwice
    /\ LET module == rq.input.design[rq.hidx]
           graph_name == HaystackGraphName(module)
           r == module2graph(EmptyGraph, module, rq.config.constports,
                             TRUE, -1, {})
           next == AfterGraphs(rq.hidx + 1, rq.input.design)
       IN  rq' = IF r.ok
                 THEN [rq EXCEPT !.pc = next, !.hidx = @ + 1,
                          !.built = Append(@, graph_name),
                          !.added = Append(@, graph_name),
                          !.config.solver.graphData = MapPut(@, graph_name, r.graph),
                          !.haystack_map = MapPut(@, graph_name, module)]
                 ELSE [rq EXCEPT !.pc = next, !.hidx = @ + 1,
                          !.built = Append(@, graph_name)]
    /\ UNCHANGED <<uni, cmp, mg>>

\* the haystack graphs the loop of lines 586-590 has still to visit
ToSolve ==
    KeysInOrder({h \in DOMAIN rq.haystack_map :
                    \A k \in 1..Len(rq.solved) : rq.solved[k][2] # h})

\* the bug this stands for: the search is run with overlap allowed
RQ_Solve_allowOverlap ==
    /\ rq.pc = "solve"
    /\ ToSolve # <<>>
    /\ NeedleGraphName(rq.needle) \in DOMAIN rq.config.solver.graphData
    /\ LET nid == NeedleGraphName(rq.needle)
           hid == Head(ToSolve)
       IN  rq' = [rq EXCEPT !.solved = Append(@, <<nid, hid>>),
                            !.results = @ \o solve(rq.config.solver, nid, hid, TRUE)]
    /\ UNCHANGED <<uni, cmp, mg>>

\* lines 586-590: one turn of the loop, the needle graph registered
RQ_Solve ==
    /\ rq.pc = "solve"
    /\ ToSolve # <<>>
    /\ NeedleGraphName(rq.needle) \in DOMAIN rq.config.solver.graphData
    /\ LET nid == NeedleGraphName(rq.needle)
           hid == Head(ToSolve)
       IN  rq' = [rq EXCEPT !.solved = Append(@, <<nid, hid>>),
                            !.results = @ \o solve(rq.config.solver, nid, hid, FALSE)]
    /\ UNCHANGED <<uni, cmp, mg>>

\* the same turn with a needle graph the solver was never given: the solver
\* stops on its assertion, or goes on with an empty graph of that name
RQ_SolveUnregistered ==
    /\ rq.pc = "solve"
    /\ ToSolve # <<>>
    /\ NeedleGraphName(rq.needle) \notin DOMAIN rq.config.solver.graphData
    /\ LET nid == NeedleGraphName(rq.needle)
           hid == Head(ToSolve)
           empty == MapPut(rq.config.solver.graphData, nid, EmptyGraph)
       IN  \E outcome \in {"abort", "none", "one"} :
             rq' = IF outcome = "abort"
                   THEN [rq EXCEPT !.pc = "aborted", !.solved = Append(@, <<nid, hid>>)]
                   ELSE IF outcome = "none"
                   THEN [rq EXCEPT !.solved = Append(@, <<nid, hid>>),
                                   !.config.solver.graphData = empty]
                   ELSE [rq EXCEPT !.solved = Append(@, <<nid, hid>>),
                                   !.config.solver.graphData = empty,
                                   !.results = Append(@,
                                       [needleGraphId |-> nid, haystackGraphId |-> hid,
                                        mappings |-> EmptyMap])]
    /\ UNCHANGED <<uni, cmp, mg>>

\* lines 595-650: the Results folded into the MatchList
RQ_Fold ==
    /\ rq.pc = "solve"
    /\ ToSolve = <<>>
    /\ \A i \in 1..Len(rq.results) : ~DerefsNull(rq.results[i])
    /\ rq' = [rq EXCEPT !.pc = "returned",
                !.ret = [null |-> FALSE,
                         matches |-> [i \in 1..Len(rq.results) |->
                                        FoldResult(rq.needle_ports, rq.results[i])]]]
    /\ UNCHANGED <<uni, cmp, mg>>

\* the same with a mapping of a constant node, whose user data is null:
\* lines 609-613 read a cell through the null pointer
RQ_FoldNull ==
    /\ rq.pc = "solve"
    /\ ToSolve = <<>>
    /\ \E i \in 1..Len(rq.results) : DerefsNull(rq.results[i])
    /\ \E outcome \in {"crash", "junk"} :
         rq' = IF outcome = "crash"
               THEN [rq EXCEPT !.pc = "aborted"]
               ELSE [rq EXCEPT !.pc = "returned",
                        !.ret = [null |-> FALSE,
                                 matches |-> [i \in 1..Len(rq.results) |->
                                                FoldResult(rq.needle_ports,
                                                           rq.results[i])]]]
    /\ UNCHANGED <<uni, cmp, mg>>

\* lines 559-567 with a graph of that name left in the solver by an earlier
\* call: addGraph stops on its assertion, or replaces the graph
RQ_NeedleGraphTwice ==
    /\ rq.pc = "needle_graph"
    /\ NeedleAddedTwice
    /\ LET graph_name == NeedleGraphName(rq.needle)
           r == module2graph(EmptyGraph, rq.needle, rq.config.constports,
                             FALSE, -1, {})
           next == AfterGraphs(1, rq.input.design)
       IN  \E outcome \in {"assert", "replace"} :
             rq' = IF outcome = "assert"
                   THEN [rq EXCEPT !.pc = "aborted", !.built = Append(@, graph_name)]
                   ELSE [rq EXCEPT !.pc = next,
                            !.built = Append(@, graph_name),
                            !.added = Append(@, graph_name),
                            !.config.solver.graphData = MapPut(@, graph_name, r.graph),
                            !.needle_map = MapPut(@, graph_name, rq.needle)]
    /\ UNCHANGED <<uni, cmp, mg>>

\* lines 569-580, the same for a haystack graph
RQ_HaystackGraphTwice ==
    /\ rq.pc = "haystack_graphs"
    /\ HaystackAddedTwice
    /\ LET module == rq.input.design[rq.hidx]
           graph_name == HaystackGraphName(module)
           r == module2graph(EmptyGraph, module, rq.config.constports,
                             TRUE, -1, {})
           next == AfterGraphs(rq.hidx + 1, rq.input.design)
       IN  \E outcome \in {"assert", "replace"} :
             rq' = IF outcome = "assert"
                   THEN [rq EXCEPT !.pc = "aborted", !.built = Append(@, graph_name)]
                   ELSE [rq EXCEPT !.pc = next, !.hidx = @ + 1,
                            !.built = Append(@, graph_name),
                            !.added = Append(@, graph_name),
                            !.config.solver.graphData = MapPut(@, graph_name, r.graph),
                            !.haystack_map = MapPut(@, graph_name, module)]
    /\ UNCHANGED <<uni, cmp, mg>>

\* the caller runs the next query on the same SvqlConfig: the locals of
\* run_query start afresh, the solver inside the config is the same object
RQ_Again ==
    /\ rq.pc = "returned"
    /\ rq.call <= Len(rq.input.later)
    /\ rq' = [rq EXCEPT !.pc = "configured", !.call = @ + 1,
                !.before = DOMAIN rq.config.solver.graphData,
                !.input.design = rq.input.later[rq.call],
                !.needle = <<>>, !.needle_ports = {},
                !.needle_map = EmptyMap, !.haystack_map = EmptyMap,
                !.hidx = 1, !.results = <<>>, !.ret = NullList,
                !.built = <<>>, !.added = <<>>, !.solved = <<>>]
    /\ UNCHANGED <<uni, cmp, mg>>

Next ==
    \/ Configure
    \/ SetPattern
    \/ RQ_Lookup
    \/ RQ_NeedleGraph
    \/ RQ_HaystackGraph
    \/ RQ_Solve
    \/ RQ_SolveUnregistered
    \/ RQ_Fold
    \/ RQ_FoldNull
    \/ RQ_NeedleGraphTwice
    \/ RQ_HaystackGraphTwice
    \/ RQ_Again

Spec == Init /\ [][Next]_vars

(***************************************************************************)
(* SpecGraph: one call of module2graph with every argument drawn from a    *)
(* small set: the module, constports, whether a selection is passed, the   *)
(* fan-out cap, the split set and the graph that is passed in.             *)
(*   mg = [pc, mod, constports, sel, max_fanout, split, passed, graph, ok, *)
(*         sig_use_count]                                                  *)
(***************************************************************************)
MaxFanout == 3

Name_fan == <<"\\", "f", "a", "n">>

Ww == WireBit("\\w", 0)

\* wire a, in or out of the selection
WaSel(s) == [Wa EXCEPT !.wire.selected = s]

\* three gates over the wires a, b and w, where w is an alias of a
\* (a connection of the module joins them, so sigmap maps w to a); the
\* first gate may drive a, the third gate may be outside the selection
FanModulesOver(sa) ==
    {[Module(Name_fan, 0, TRUE,
             <<Gate(Name_fan, <<"u", "1">>, EmptyMap, a1, b1, y1),
               Gate(Name_fan, <<"u", "2">>, EmptyMap, a2, b2, Wz),
               [Gate(Name_fan, <<"u", "3">>, EmptyMap, a3, WaSel(sa), Wd)
                  EXCEPT !.selected = s3]>>,
             <<WaSel(sa).wire, Wb.wire, Ww.wire, Wy.wire, Wz.wire, Wd.wire>>)
        EXCEPT !.sigmap = [k \in {<<"\\w", 0>>} |-> WaSel(sa)]] :
       a1 \in {WaSel(sa), Ww}, b1 \in {WaSel(sa), Wb, ConstBit("1")},
       y1 \in {Wy, WaSel(sa)},
       a2 \in {WaSel(sa), Ww, Wb}, b2 \in {WaSel(sa), ConstBit("0")},
       a3 \in {WaSel(sa), Wb},
       s3 \in BOOLEAN}

FanModules == FanModulesOver(TRUE) \cup FanModulesOver(FALSE)

\* a graph that already holds one cell, as left by an earlier conversion
PriorGraph ==
    module2graph(EmptyGraph,
                 Module(<<"\\", "p">>, 0, TRUE,
                        <<Gate(<<"\\", "p">>, <<"p", "1">>, EmptyMap, Wa, Wb, Wy)>>,
                        <<Wa.wire, Wb.wire, Wy.wire>>),
                 FALSE, FALSE, -1, {}).graph

\* the states of a literal bit: 0, 1, x, z, don't care and marker
LiteralStates == States \cup {"a", "m"}

Name_lit == <<"\\", "l", "i", "t">>

\* one gate with both inputs tied to literals
LiteralModules ==
    {Module(Name_lit, 0, TRUE,
            <<Gate(Name_lit, <<"u", "1">>, EmptyMap, ConstBit(sa), ConstBit(sb), Wy)>>,
            <<Wy.wire>>) : sa \in LiteralStates, sb \in LiteralStates}

\* the chain module with either cell in or out of the selection
ChainModules ==
    {[H_chain EXCEPT !.cells[1].selected = s2, !.cells[2].selected = s1] :
        s1 \in BOOLEAN, s2 \in BOOLEAN}

FanoutValues == {-1, 0} \cup 1..MaxFanout

SplitValues == {{}, {<<T_AND, B>>}}

MgStart(mod, constports, sel, max_fanout, split, passed) ==
    [pc |-> "call", mod |-> mod, constports |-> constports, sel |-> sel,
     max_fanout |-> max_fanout, split |-> split, passed |-> passed,
     graph |-> passed, ok |-> FALSE, sig_use_count |-> EmptyMap]

InitGraph ==
    /\ uni = UniIdle
    /\ cmp = CmpIdle
    /\ rq = RqIdle
    /\ \/ \E mod \in FanModules, constports \in BOOLEAN, sel \in BOOLEAN,
             max_fanout \in FanoutValues, split \in SplitValues :
               mg = MgStart(mod, constports, sel, max_fanout, split, EmptyGraph)
       \/ \E mod \in HayModules \cup {N_chain, N_proc} \cup LiteralModules
                      \cup ChainModules,
             constports \in BOOLEAN,
             sel \in BOOLEAN, max_fanout \in FanoutValues, split \in SplitValues,
             passed \in {EmptyGraph, PriorGraph} :
               mg = MgStart(mod, constports, sel, max_fanout, split, passed)

\* the call and its return
Build ==
    /\ mg.pc = "call"
    /\ LET r == module2graph(mg.passed, mg.mod, mg.constports, mg.sel,
                             mg.max_fanout, mg.split)
           keys == {BitKey(b) : b \in {WaSel(TRUE), Wb, Wc, Wd, Wy, Wz, Wt}}
       IN  mg' = [mg EXCEPT !.pc = "done", !.graph = r.graph, !.ok = r.ok,
                            !.sig_use_count =
                                [key \in keys |->
                                   sig_use_count(mg.mod, mg.sel, mg.max_fanout, key)]]
    /\ UNCHANGED <<uni, cmp, rq>>

NextGraph == Build

SpecGraph == InitGraph /\ [][NextGraph]_vars


(***************************************************************************)
(* SpecRegex: one call of userCompareNodes on two cells that differ only   *)
(* in their output wires, under a regex table.                             *)
(*   cmp = [pc, solver, needle, haystack, step, result]                    *)
(***************************************************************************)
MaxOutBits == 2

\* the wire names of this specification; a compiled pattern is the set of
\* these names it accepts
Re_sum == {"\\sum_42", "\\sum_1"}

Re_carry == {"\\carry_1"}

RxBits ==
    {WireBit(n, 0) : n \in {"\\Y", "\\sum_42", "\\carry_1"}} \cup {ConstBit("x")}

RECURSIVE RxSigs(_)
RxSigs(n) ==
    IF n = 0 THEN {<<>>}
    ELSE {<<>>} \cup {<<b>> \o sig : b \in RxBits, sig \in RxSigs(n - 1)}

\* one input port and one output port of up to MaxOutBits bits
RxCells ==
    {[null |-> FALSE, name |-> "c", type |-> T_user, parameters |-> EmptyMap,
      attributes |-> EmptyMap,
      conns |-> <<[port |-> A, sig |-> <<WireBit("\\sum_1", 0)>>],
                  [port |-> Y, sig |-> sig]>>,
      outputs |-> {Y}, module |-> "mod", selected |-> TRUE] :
        sig \in RxSigs(MaxOutBits)}

RxTables ==
    {EmptyMap,
     [m \in {"mod"} |-> [w \in {"\\Y"} |-> Re_sum]],
     [m \in {"mod"} |-> [w \in {"\\Y", "\\carry_1"} |->
                           IF w = "\\Y" THEN Re_sum ELSE Re_carry]],
     [m \in {"top"} |-> [w \in {"\\Y"} |-> Re_sum]]}

RxSolvers ==
    [ignoreParameters : {FALSE},
     ignoredParams : {{}},
     cell_attr : {{}},
     wire_attr : {{}},
     regexMap : RxTables]

InitRegex ==
    /\ cmp \in [pc : {"regex"}, solver : RxSolvers]
    /\ uni = UniIdle
    /\ rq = RqIdle
    /\ mg = MgIdle

CompareNames ==
    /\ cmp.pc = "regex"
    /\ \E n \in RxCells, h \in RxCells :
        cmp' = [pc |-> "regex_done", solver |-> cmp.solver, needle |-> n,
                haystack |-> h,
                step |-> RegexStep(cmp.solver, n, h),
                result |->
                    IF userCompareNodes_aborts(cmp.solver, n, h, EmptyMap) THEN "abort"
                    ELSE IF userCompareNodes(cmp.solver, n, h, EmptyMap) THEN "true"
                    ELSE "false"]
    /\ UNCHANGED <<uni, rq, mg>>

NextRegex == CompareNames

SpecRegex == InitRegex /\ [][NextRegex]_vars

(***************************************************************************)
(* SpecWire: one call of userCompareNodes on two cells that differ only in *)
(* the wires on their ports, with wire attributes to compare.              *)
(*   cmp = [pc, solver, needle, haystack, step, result]                    *)
(***************************************************************************)
MaxWireBits == 2

\* the wires of a module: each name is one wire, with its attributes
WireWithAttrs(name, attrs) ==
    [null |-> FALSE, name |-> name, width |-> MaxWireBits, port_id |-> 0,
     attributes |-> attrs, selected |-> TRUE]

WxWires ==
    {WireWithAttrs("\\w1", [n \in {"keep"} |-> <<"1">>]),
     WireWithAttrs("\\w2", EmptyMap),
     WireWithAttrs("\\w3", [n \in {"keep"} |-> <<"0">>]),
     NullWire}

\* signals of up to n bits; bit i of the signal is bit i of its wire
RECURSIVE WxSigs(_)
WxSigs(n) ==
    IF n = 0 THEN {<<>>}
    ELSE {<<>>} \cup {Append(sig, [wire |-> w, offset |-> IF w.null THEN 0 ELSE Len(sig),
                                   data |-> "x"]) :
                         sig \in {q \in WxSigs(n - 1) : Len(q) = n - 1}, w \in WxWires}
                \cup WxSigs(n - 1)

WxCells ==
    {[null |-> FALSE, name |-> "c", type |-> T_user, parameters |-> EmptyMap,
      attributes |-> EmptyMap,
      conns |-> <<[port |-> A, sig |-> sa], [port |-> Y, sig |-> sy]>>,
      outputs |-> {Y}, module |-> "mod", selected |-> TRUE] :
        sa \in WxSigs(MaxWireBits),
        sy \in {q \in WxSigs(1) : Len(q) = 1 /\ q[1].wire.name \in {"", "\\w1"}}}

WxSolvers ==
    [ignoreParameters : {FALSE},
     ignoredParams : {{}},
     cell_attr : {{}},
     wire_attr : {{"keep"}, {"keep", "src"}, {}},
     regexMap : {EmptyMap}]

\* every port of the needle cell is mapped to the port of the same name
WxPortMapping == [p \in {A, Y} |-> p]

InitWire ==
    /\ cmp \in [pc : {"wire"}, solver : WxSolvers]
    /\ uni = UniIdle
    /\ rq = RqIdle
    /\ mg = MgIdle

CompareWires ==
    /\ cmp.pc = "wire"
    /\ \E n \in WxCells, h \in WxCells :
        cmp' = [pc |-> "wire_done", solver |-> cmp.solver, needle |-> n,
                haystack |-> h,
                step |-> WireAttrStep(cmp.solver, n, h, WxPortMapping),
                result |->
                    IF userCompareNodes_aborts(cmp.solver, n, h, WxPortMapping)
                    THEN "abort"
                    ELSE IF userCompareNodes(cmp.solver, n, h, WxPortMapping) THEN "true"
                    ELSE "false"]
    /\ UNCHANGED <<uni, rq, mg>>

NextWire == CompareWires

SpecWire == InitWire /\ [][NextWire]_vars

(***************************************************************************)
(* SpecEscape: escape_needle_name applied to one name.                     *)
(*   uni = [pc, name, out]                                                 *)
(***************************************************************************)
MaxNameLen == 3

\* the strings of up to n characters of a cell name
RECURSIVE NameTails(_)
NameTails(n) ==
    IF n = 0 THEN {<<>>}
    ELSE NameTails(n - 1)
         \cup {Append(s, ch) : s \in {q \in NameTails(n - 1) : Len(q) = n - 1},
                               ch \in {"u", "_", "1"}}

NameHeads ==
    {<<>>, Prefix_needle, Prefix_haystack, <<"\\">> \o Prefix_needle,
     <<"\\">> \o Prefix_haystack, SubSeq(Prefix_needle, 1, 6),
     SubSeq(Prefix_haystack, 1, 8)}

EscNames == {h \o t : h \in NameHeads, t \in NameTails(MaxNameLen)}

InitEscape ==
    /\ uni \in [pc : {"name"}, name : EscNames]
    /\ cmp = CmpIdle
    /\ rq = RqIdle
    /\ mg = MgIdle

EscapeName ==
    /\ uni.pc = "name"
    /\ uni' = [pc |-> "name_done", name |-> uni.name,
               out |-> escape_needle_name(uni.name)]
    /\ UNCHANGED <<cmp, rq, mg>>

NextEscape == EscapeName

SpecEscape == InitEscape /\ [][NextEscape]_vars

(***************************************************************************)
(* SpecSort: compareSortNeedleList applied to every pair of three modules. *)
(*   uni = [pc, left, mid, right, less]                                    *)
(* A module is [name, attributes]; its name is an IdString [str, index_],  *)
(* and IdStrings are ordered by index_.                                    *)
(***************************************************************************)
MaxOrderLen == 1

\* the bug this stands for: the names are not compared
compareSortNeedleList_orderOnly(left, right) ==
    LET left_idx  == IF "extract_order" \in DOMAIN left.attributes
                     THEN as_int(left.attributes["extract_order"]) ELSE 0
        right_idx == IF "extract_order" \in DOMAIN right.attributes
                     THEN as_int(right.attributes["extract_order"]) ELSE 0
    IN  left_idx < right_idx

compareSortNeedleList(left, right) ==
    LET left_idx  == IF "extract_order" \in DOMAIN left.attributes
                     THEN as_int(left.attributes["extract_order"]) ELSE 0
        right_idx == IF "extract_order" \in DOMAIN right.attributes
                     THEN as_int(right.attributes["extract_order"]) ELSE 0
    IN  IF left_idx # right_idx THEN left_idx < right_idx
        ELSE left.name.index_ < right.name.index_

SortNames == {Name_and, Name_two, Name_chain}

\* the index_ of each name: any order in which the names were first used
SortIndices ==
    {f \in [SortNames -> 1..Cardinality(SortNames)] :
        \A a, b \in SortNames : f[a] = f[b] => a = b}

RECURSIVE BinaryOfLen(_)
BinaryOfLen(n) ==
    IF n = 0 THEN {<<>>}
    ELSE {Append(v, b) : v \in BinaryOfLen(n - 1), b \in {"0", "1"}}

\* no attribute, short values, and a 32-bit value with the sign bit set
SortAttributes ==
    {EmptyMap}
    \cup {[a \in {"extract_order"} |-> v] :
            v \in UNION {BinaryOfLen(n) : n \in 0..MaxOrderLen}
                  \cup {Zeros(ConstWidth - 1) \o <<"1">>}}

SortModules(index) ==
    {[name |-> [str |-> s, index_ |-> index[s]], attributes |-> as] :
        s \in SortNames, as \in SortAttributes}

InitSort ==
    /\ \E index \in SortIndices :
         uni \in [pc : {"sort"}, left : SortModules(index),
                  mid : SortModules(index), right : SortModules(index)]
    /\ cmp = CmpIdle
    /\ rq = RqIdle
    /\ mg = MgIdle

\* the pairs <<i, j>> of the three modules for which the function is true
SortPairs(mods) ==
    {p \in {1, 2, 3} \X {1, 2, 3} : compareSortNeedleList(mods[p[1]], mods[p[2]])}

CompareModules ==
    /\ uni.pc = "sort"
    /\ uni' = [pc |-> "sort_done", left |-> uni.left, mid |-> uni.mid,
               right |-> uni.right,
               less |-> SortPairs(<<uni.left, uni.mid, uni.right>>)]
    /\ UNCHANGED <<cmp, rq, mg>>

NextSort == CompareModules

SpecSort == InitSort /\ [][NextSort]_vars

(***************************************************************************)
(* C1: in every Result that run_query folds into a Match, no two distinct  *)
(* needle nodes are mapped to the same haystack node; the Match built      *)
(* from it therefore never lists one haystack cell twice.                  *)
(***************************************************************************)
C1_Injective ==
    /\ \A i \in 1..Len(rq.results) :
          \A a, b \in DOMAIN rq.results[i].mappings :
              a # b => rq.results[i].mappings[a].haystackNodeId
                       # rq.results[i].mappings[b].haystackNodeId
    /\ rq.pc = "returned" /\ ~rq.ret.null =>
          \A i \in 1..Len(rq.ret.matches) :
              \A a, b \in 1..Len(rq.ret.matches[i].cells) :
                  a # b => rq.ret.matches[i].cells[a].haystack
                           # rq.ret.matches[i].cells[b].haystack

\* a Match of the two-gate pattern in a design whose first module has one
\* gate only: the second needle gate had no second haystack gate there
C1_Witness ==
    /\ rq.pc = "returned"
    /\ rq.input.cfg.pat_module_name = Name_two
    /\ rq.input.design = <<H_and, H_chain>>
    /\ Len(rq.ret.matches) = 1
    /\ Len(rq.ret.matches[1].cells) = 2
    /\ rq.results[1].haystackGraphId = HaystackGraphName(H_chain)

(***************************************************************************)
(* C2: for every Result and every connection of its needle graph, the      *)
(* pins that the two ends are mapped to, on the ports a registered swap or *)
(* permutation allows and on the same bits, are connected in the haystack  *)
(* graph, and they carry the same signal bit (or the same constant) in the *)
(* haystack module the graph was built from.                               *)
(***************************************************************************)
\* the signal bit on a pin of a haystack node
HayPinBit(mod, nodeId, port, bit) ==
    IF nodeId \in ConstNodeIds
    THEN ConstBit(CHOOSE s \in States : ConstNodeName(s) = nodeId)
    ELSE LET cell == mod.cells[CHOOSE i \in 1..Len(mod.cells) :
                                  mod.cells[i].name = nodeId]
         IN  SigMapBit(mod, getPort(cell, port)[bit + 1])

SameSignal(b1, b2) ==
    IF b1.wire.null \/ b2.wire.null
    THEN b1.wire.null /\ b2.wire.null /\ ConstNodeOf(b1.data) = ConstNodeOf(b2.data)
    ELSE b1.wire.name = b2.wire.name /\ b1.offset = b2.offset

ConnectionKept(r, ng, hg, hmod, pms, c) ==
    LET hA == r.mappings[c.fromNode].haystackNodeId
        hB == r.mappings[c.toNode].haystackNodeId
        pA == pms[NodeIdx(ng, c.fromNode)][c.fromPort]
        pB == pms[NodeIdx(ng, c.toNode)][c.toPort]
    IN  /\ SameNet(hg, Pin(hA, pA, c.fromBit), Pin(hB, pB, c.toBit))
        /\ SameSignal(HayPinBit(hmod, hA, pA, c.fromBit),
                      HayPinBit(hmod, hB, pB, c.toBit))

\* some choice of one allowed port mapping per needle node keeps them all
RECURSIVE SoundUnder(_, _, _, _, _, _)
SoundUnder(solver, r, ng, hg, hmod, pms) ==
    IF Len(pms) = Len(ng.nodes)
    THEN \A k \in 1..Len(ng.conns) : ConnectionKept(r, ng, hg, hmod, pms, ng.conns[k])
    ELSE LET n == ng.nodes[Len(pms) + 1]
         IN  \E pm \in PortMappings(solver, n.typeId, NodePorts(ng, n.nodeId)) :
                 SoundUnder(solver, r, ng, hg, hmod, Append(pms, pm))

\* C2: every Result keeps every connection of its needle graph
C2_StructuralSoundness ==
    \A i \in 1..Len(rq.results) :
        LET r == rq.results[i]
        IN  SoundUnder(rq.config.solver, r,
                       rq.config.solver.graphData[r.needleGraphId],
                       rq.config.solver.graphData[r.haystackGraphId],
                       rq.haystack_map[r.haystackGraphId], <<>>)

\* the chain pattern found where the internal wire enters the consumer on
\* input B: the connection g1.Y -> g2.A is kept on the swapped port
C2_Witness ==
    /\ rq.pc = "returned"
    /\ rq.input.cfg.pat_module_name = Name_chain
    /\ rq.input.cfg.perms = <<>>
    /\ Len(rq.results) = 1
    /\ rq.results[1].haystackGraphId = HaystackGraphName(H_chain)
    /\ \E k \in 1..Len(rq.config.solver.graphData[NeedleGraphName(N_chain)].conns) :
          LET c == rq.config.solver.graphData[NeedleGraphName(N_chain)].conns[k]
          IN  c.fromNode # c.toNode /\ c.toPort = A

(***************************************************************************)
(* C3: when run_query returns, every injective, type-compatible,           *)
(* predicate-accepted and connection-preserving mapping of the needle      *)
(* graph into a searched haystack graph is among the accumulated Results.  *)
(***************************************************************************)
Injections(n, m) ==
    {f \in [1..n -> 1..m] : \A a, b \in 1..n : f[a] = f[b] => a = b}

IsResult(hid, ng, hg, f) ==
    \E i \in 1..Len(rq.results) :
        /\ rq.results[i].haystackGraphId = hid
        /\ \A a \in 1..Len(ng.nodes) :
              rq.results[i].mappings[ng.nodes[a].nodeId].haystackNodeId
              = hg.nodes[f[a]].nodeId

\* C3: every embedding of the needle graph is among the Results
C3_Exhaustive ==
    rq.pc = "returned" /\ rq.needle_map # EmptyMap =>
        \A k \in 1..Len(rq.solved) :
            LET ng == rq.config.solver.graphData[rq.solved[k][1]]
                hg == rq.config.solver.graphData[rq.solved[k][2]]
            IN  \A f \in Injections(Len(ng.nodes), Len(hg.nodes)) :
                    ExistsMapping(rq.config.solver, ng, hg, f, <<>>)
                    => IsResult(rq.solved[k][2], ng, hg, f)

(***************************************************************************)
(* C4: a haystack module that is not selected or still has a process is    *)
(* never registered with the solver, never passed to solve and never the   *)
(* haystack graph of a Result; every other module of the design is         *)
(* registered, and each has been searched when the query returns.          *)
(***************************************************************************)
Rejected(module) == ~module.selected \/ module.processes > 0

Visited == {rq.input.design[i] : i \in 1..(rq.hidx - 1)}

\* C4: a rejected haystack module takes no part, the others all do
C4_RejectedHaystack ==
    /\ \A module \in Visited :
          IF Rejected(module)
          THEN /\ HaystackGraphName(module) \notin DOMAIN rq.config.solver.graphData
               /\ HaystackGraphName(module) \notin Range(rq.added)
               /\ HaystackGraphName(module) \notin DOMAIN rq.haystack_map
               /\ \A k \in 1..Len(rq.solved) :
                     rq.solved[k][2] # HaystackGraphName(module)
               /\ \A i \in 1..Len(rq.results) :
                     rq.results[i].haystackGraphId # HaystackGraphName(module)
          ELSE /\ HaystackGraphName(module) \in DOMAIN rq.config.solver.graphData
               /\ HaystackGraphName(module) \in DOMAIN rq.haystack_map
    /\ rq.pc = "returned" =>
          \A module \in Range(rq.input.design) :
              ~Rejected(module) =>
                  \E k \in 1..Len(rq.solved) :
                      rq.solved[k][2] = HaystackGraphName(module)

\* a module with a process ahead of a plain one: the query returned the
\* match found in the plain one
C4_Witness ==
    /\ rq.pc = "returned"
    /\ rq.input.design = <<H_proc, H_and>>
    /\ rq.input.cfg.pat_module_name = Name_and
    /\ Len(rq.built) = 3
    /\ Len(rq.ret.matches) = 1
    /\ rq.results[1].haystackGraphId = HaystackGraphName(H_and)

(***************************************************************************)
(* C5: when the configured needle module name names no module of the       *)
(* needle design, run_query reports one error and ends with the null       *)
(* result, with no graph built, none registered and no solve call made.    *)
(***************************************************************************)
PastLookup == rq.pc \notin {"off", "start", "configured", "config_error"}

\* C5: an unresolved needle name ends the query before any graph work
C5_UnresolvedNeedle ==
    PastLookup /\ ~HasModule(rq.input.needle_design, rq.config.pat_module_name) =>
        /\ rq.pc = "failed"
        /\ rq.errors = 1
        /\ rq.ret.null
        /\ rq.built = <<>>
        /\ rq.added = <<>>
        /\ rq.solved = <<>>
        /\ rq.results = <<>>
        /\ rq.config.solver.graphData = EmptyMap

\* the name is given but the needle design has no such module, and the
\* haystack design is not empty
C5_Witness ==
    /\ rq.pc = "failed"
    /\ rq.config.pat_module_name = Name_none
    /\ rq.input.design = <<H_and>>
    /\ rq.errors = 1

(***************************************************************************)
(* C6: when module2graph rejects the needle module, run_query makes no     *)
(* solve call and ends with the null result, never with a MatchList.       *)
(***************************************************************************)
NeedleRejected ==
    /\ rq.pc \in {"haystack_graphs", "solve", "returned", "aborted"}
    /\ rq.needle_map = EmptyMap

\* C6: a rejected needle module ends the query without a MatchList
C6_NeedleRejected ==
    NeedleRejected =>
        /\ rq.solved = <<>>
        /\ rq.pc = "returned" => rq.ret.null

(***************************************************************************)
(* C7: a permutation declaration whose two port lists differ as multisets  *)
(* ends configure with one error on either path: the solver holds the      *)
(* permutations declared before it and nothing of it, and no graph is      *)
(* built, registered or searched.                                          *)
(***************************************************************************)
Count(list, p) == Cardinality({i \in 1..Len(list) : list[i] = p})

SameMultiset(l, r) == \A p \in Range(l) \cup Range(r) : Count(l, p) = Count(r, p)

BadPerms ==
    {k \in 1..Len(rq.input.cfg.perms) :
        ~SameMultiset(rq.input.cfg.perms[k].left, rq.input.cfg.perms[k].right)}

FirstBadPerm == CHOOSE k \in BadPerms : \A j \in BadPerms : k <= j

\* C7: a declaration that is no permutation ends configure with an error
C7_BadPermutation ==
    rq.pc \notin {"off", "start"} /\ BadPerms # {} =>
        /\ rq.pc = "config_error"
        /\ rq.errors = 1
        /\ ~rq.config.ok
        /\ rq.config.solver.swapPermutations
           = {<<rq.input.cfg.perms[k].type,
                PermMap(rq.input.cfg.perms[k].left, rq.input.cfg.perms[k].right)>> :
                 k \in 1..(FirstBadPerm - 1)}
        /\ rq.config.solver.graphData = EmptyMap
        /\ rq.built = <<>>
        /\ rq.added = <<>>
        /\ rq.solved = <<>>
        /\ rq.results = <<>>

\* the CConfig path, a valid declaration followed by one whose lists have
\* the same names and the same length but not the same multiset
C7_Witness ==
    /\ rq.pc = "config_error"
    /\ rq.input.cfg.path = "cconfig"
    /\ Len(rq.input.cfg.perms) = 2
    /\ rq.input.cfg.perms[2].left = <<A, A, B>>
    /\ rq.input.cfg.perms[2].right = <<A, B, B>>
    /\ Cardinality(rq.config.solver.swapPermutations) = 1

(***************************************************************************)
(* C8: with a non-empty cell attribute set, userCompareNodes passes the    *)
(* cell attribute step exactly when, for each configured name, both cells  *)
(* lack the attribute or both have it with the same value; a pair that     *)
(* differs on a configured name is rejected by userCompareNodes.           *)
(***************************************************************************)
\* each name is missing on both sides or has one value on both
AttrsAgree(names, na, ha) ==
    \A a \in names :
        \/ a \notin DOMAIN na /\ a \notin DOMAIN ha
        \/ a \in DOMAIN na /\ a \in DOMAIN ha /\ na[a] = ha[a]

\* C8: the cell attribute step accepts exactly the agreeing pairs
C8_CellAttributes ==
    cmp.pc = "attr_done" /\ cmp.solver.cell_attr # {} =>
        /\ cmp.step = AttrsAgree(cmp.solver.cell_attr, cmp.needle.attributes,
                                 cmp.haystack.attributes)
        /\ ~AttrsAgree(cmp.solver.cell_attr, cmp.needle.attributes,
                       cmp.haystack.attributes) => cmp.result = "false"

\* both cells have the attribute, with different values
C8_Witness ==
    /\ cmp.pc = "attr_done"
    /\ cmp.solver.cell_attr = {"keep", "src"}
    /\ DOMAIN cmp.needle.attributes = {"keep", "src"}
    /\ DOMAIN cmp.haystack.attributes = {"keep", "src"}
    /\ cmp.needle.attributes["keep"] = cmp.haystack.attributes["keep"]
    /\ cmp.needle.attributes["src"] # cmp.haystack.attributes["src"]
    /\ cmp.result = "false"

(***************************************************************************)
(* C11: unless noDefaultSwaps is set, configure registers inputs A and B   *)
(* as swappable for each of the fifteen built-in commutative types, and    *)
(* the chain pattern is then found once where the internal wire enters     *)
(* the consumer on the other input; with noDefaultSwaps set and no swap or *)
(* permutation declared, nothing is registered and it is not found.        *)
(***************************************************************************)
CommutativeTypes ==
    {<<"$", "a", "n", "d">>, <<"$", "o", "r">>, <<"$", "x", "o", "r">>,
     <<"$", "x", "n", "o", "r">>, <<"$", "e", "q">>, <<"$", "n", "e">>,
     <<"$", "e", "q", "x">>, <<"$", "n", "e", "x">>, <<"$", "a", "d", "d">>,
     <<"$", "m", "u", "l">>,
     <<"$", "l", "o", "g", "i", "c", "_", "a", "n", "d">>,
     <<"$", "l", "o", "g", "i", "c", "_", "o", "r">>,
     <<"$", "_", "A", "N", "D", "_">>, <<"$", "_", "O", "R", "_">>,
     <<"$", "_", "X", "O", "R", "_">>}

\* the chain pattern sought in the one module where the wire enters input B
SwappedPair ==
    /\ rq.config.pat_module_name = Name_chain
    /\ rq.input.design = <<H_chain>>
    /\ ~rq.input.cfg.constports
    /\ rq.input.cfg.cell_attr = {}

NothingDeclared == rq.input.cfg.swaps = {} /\ rq.input.cfg.perms = <<>>

\* C11: the default swaps are registered, and decide the swapped pair
C11_DefaultSwaps ==
    /\ rq.config.ok /\ ~rq.input.cfg.nodefaultswaps =>
          /\ Cardinality(CommutativeTypes) = 15
          /\ \A t \in CommutativeTypes : <<t, {A, B}>> \in rq.config.solver.swapPorts
          /\ rq.pc = "returned" /\ SwappedPair /\ rq.input.cfg.perms = <<>> =>
                Len(rq.ret.matches) = 1
    /\ rq.config.ok /\ rq.input.cfg.nodefaultswaps /\ NothingDeclared =>
          /\ rq.config.solver.swapPorts = {}
          /\ rq.config.solver.swapPermutations = {}
          /\ rq.pc = "returned" /\ SwappedPair => Len(rq.ret.matches) = 0

\* the CConfig path with the defaults: the one Match pairs g2 with u2
C11_Witness ==
    /\ rq.pc = "returned"
    /\ rq.input.cfg.path = "cconfig"
    /\ ~rq.input.cfg.nodefaultswaps
    /\ NothingDeclared
    /\ SwappedPair
    /\ Len(rq.ret.matches) = 1
    /\ rq.ret.matches[1].cells[2] = [needle |-> <<"\\", "g", "2">>,
                                      haystack |-> <<"\\", "u", "2">>]

(***************************************************************************)
(* C10: unifiedParam is idempotent, and is the identity for cell types     *)
(* that do not start with "$" or that start with "$_", and for parameter   *)
(* names outside the two tables.                                           *)
(***************************************************************************)
C10_UnifyIdempotent ==
    /\ uni.pc = "twice" => uni.twice = uni.once
    /\ uni.pc \in {"once", "twice"}
       /\ (\/ ~begins_with(uni.cell_type, <<"$">>)
           \/ begins_with(uni.cell_type, <<"$", "_">>)
           \/ uni.param \notin BoolParams \cup IntParams)
       => uni.once = uni.value

\* a table parameter of an internal cell, wider than an int: the value
\* was really rewritten, and rewriting it again changed nothing
C10_Witness ==
    /\ uni.pc = "twice"
    /\ uni.cell_type = T_add
    /\ uni.param = "WIDTH"
    /\ Len(uni.value) > ConstWidth
    /\ uni.once # uni.value
    /\ uni.once[ConstWidth] = "1"

(***************************************************************************)
(* C9: with ignoreParameters false, userCompareNodes accepts a pair of     *)
(* cells only if the two parameter maps, after dropping the excluded       *)
(* (cellType, paramName) entries and unifying each value, have the same    *)
(* keys and equal values per key; with ignoreParameters true the           *)
(* parameters never cause a rejection.                                     *)
(***************************************************************************)
KeptKeys(solver, cell) ==
    {p \in DOMAIN cell.parameters : <<cell.type, p>> \notin solver.ignoredParams}

ParamsAgree(solver, n, h) ==
    /\ KeptKeys(solver, n) = KeptKeys(solver, h)
    /\ \A p \in KeptKeys(solver, n) :
          unifiedParam(n.type, p, n.parameters[p])
          = unifiedParam(h.type, p, h.parameters[p])

\* nothing but the parameters and the cell attributes is configured
OnlyParamsAndCellAttrs(solver) ==
    solver.wire_attr = {} /\ DOMAIN solver.regexMap = {}

\* C9: acceptance implies equal kept, unified parameters
C9_ParamEquivalence ==
    CmpBothCells =>
        /\ ~cmp.solver.ignoreParameters /\ cmp.result = "true"
           => ParamsAgree(cmp.solver, cmp.needle, cmp.haystack)
        /\ cmp.solver.ignoreParameters /\ OnlyParamsAndCellAttrs(cmp.solver)
           /\ AttrsAgree(cmp.solver.cell_attr, cmp.needle.attributes,
                         cmp.haystack.attributes)
           => cmp.result = "true"

\* accepted although the raw values differ (1 bit against 2 bits): the
\* unification made them equal; ignoreParameters is off
C9_Witness ==
    /\ CmpBothCells
    /\ ~cmp.solver.ignoreParameters
    /\ cmp.result = "true"
    /\ cmp.needle.type = T_add /\ cmp.haystack.type = T_add
    /\ "WIDTH" \in DOMAIN cmp.needle.parameters
    /\ "WIDTH" \in DOMAIN cmp.haystack.parameters
    /\ <<T_add, "WIDTH">> \notin cmp.solver.ignoredParams
    /\ cmp.needle.parameters["WIDTH"] # cmp.haystack.parameters["WIDTH"]

(***************************************************************************)
(* C12: with a cap k > 0 on the fan-out, module2graph creates at most k    *)
(* connections for any canonical wire bit; with a cap of 0 or less, every  *)
(* use of a bit by a converted pin gets its connection.                    *)
(***************************************************************************)
\* the canonical wire bits of the module the call was given
CanonicalKeys ==
    {BitKey(SigMapBit(mg.mod, mg.mod.cells[pos[1]].conns[pos[2]].sig[pos[3]])) :
        pos \in {q \in PinPositions(mg.mod) :
                   ~mg.mod.cells[q[1]].conns[q[2]].sig[q[3]].wire.null}}

\* the connections this call added whose visited pin carries the bit
ConnectionsFor(key) ==
    {i \in (Len(mg.passed.conns) + 1)..Len(mg.graph.conns) :
        LET c == mg.graph.conns[i]
            bit == HayPinBit(mg.mod, c.toNode, c.toPort, c.toBit)
        IN  ~bit.wire.null /\ BitKey(bit) = key}

\* the positions that carry the bit and are skipped for no other reason
UsesOf(key) ==
    {pos \in PinPositions(mg.mod) :
        LET cell == mg.mod.cells[pos[1]]
            bit == SigMapBit(mg.mod, cell.conns[pos[2]].sig[pos[3]])
        IN  /\ ~mg.sel \/ cell.selected
            /\ <<cell.type, cell.conns[pos[2]].port>> \notin mg.split
            /\ ~bit.wire.null /\ BitKey(bit) = key
            /\ ~mg.sel \/ bit.wire.selected}

\* C12: never more than the cap; without a cap nothing is left out
C12_FanoutCap ==
    mg.pc = "done" /\ mg.ok =>
        \A key \in CanonicalKeys :
            /\ mg.max_fanout > 0 =>
                  Cardinality(ConnectionsFor(key)) <= mg.max_fanout
            /\ mg.max_fanout <= 0 =>
                  Cardinality(ConnectionsFor(key)) = Cardinality(UsesOf(key))

\* five pins on wire a, two of them through its alias w, under a cap of 3
C12_Witness ==
    /\ mg.pc = "done" /\ mg.ok
    /\ mg.max_fanout = 3
    /\ mg.split = {}
    /\ Cardinality(UsesOf(<<"\\a", 0>>)) = 5
    /\ \E pos \in UsesOf(<<"\\a", 0>>) :
          mg.mod.cells[pos[1]].conns[pos[2]].sig[pos[3]].wire.name = "\\w"
    /\ ConnectionsFor(<<"\\a", 0>>) = {}
    /\ ConnectionsFor(<<"\\b", 0>>) # {}

(***************************************************************************)
(* C13: when no cell pin of the needle module or of the haystack design is *)
(* tied to a literal constant, a query run with constPorts produces the    *)
(* same set of Matches as the query run without it.                        *)
(***************************************************************************)
NoLiteralPin(mod) ==
    \A pos \in PinPositions(mod) :
        ~mod.cells[pos[1]].conns[pos[2]].sig[pos[3]].wire.null

RECURSIVE SolveAll(_, _, _, _)
SolveAll(solver, nid, hids, k) ==
    IF k > Len(hids) THEN <<>>
    ELSE solve(solver, nid, hids[k], FALSE) \o SolveAll(solver, nid, hids, k + 1)

\* the Matches of the same query with constPorts disabled
MatchesWithoutConstPorts ==
    LET nid == NeedleGraphName(rq.needle)
        gd == [g \in DOMAIN rq.config.solver.graphData |->
                 IF g = nid
                 THEN module2graph(EmptyGraph, rq.needle, FALSE, FALSE, -1, {}).graph
                 ELSE module2graph(EmptyGraph, rq.haystack_map[g], FALSE,
                                   TRUE, -1, {}).graph]
        results == SolveAll([rq.config.solver EXCEPT !.graphData = gd], nid,
                            KeysInOrder(DOMAIN rq.haystack_map), 1)
    IN  {FoldResult(rq.needle_ports, results[i]) : i \in 1..Len(results)}

\* a query with constPorts, an accepted needle and no literal pin anywhere
ConstPortsRunEnded ==
    /\ rq.pc \in {"returned", "aborted"}
    /\ rq.config.ok /\ rq.config.constports
    /\ \E k \in 1..Len(rq.added) : rq.added[k] = NeedleGraphName(rq.needle)
    /\ NoLiteralPin(rq.needle)
    /\ \A k \in 1..Len(rq.input.design) : NoLiteralPin(rq.input.design[k])

\* C13: the run returns, and returns the Matches of the run without constPorts
C13_ConstModeEquivalence ==
    ConstPortsRunEnded =>
        /\ rq.pc = "returned"
        /\ {rq.ret.matches[i] : i \in 1..Len(rq.ret.matches)}
             = MatchesWithoutConstPorts

(***************************************************************************)
(* C14: when the regex table has an entry for the needle cell's module,    *)
(* userCompareNodes rejects exactly when, at some flat output-wire index   *)
(* whose needle wire name has a pattern, the haystack cell has no output   *)
(* wire or one whose name does not satisfy the pattern; positions without  *)
(* a pattern, and cells of a module without an entry, are never rejected.  *)
(***************************************************************************)
\* the wires of the output ports of a cell, in order, constants left out
FlatOutputs(cell) ==
    LET RECURSIVE Bits(_)
        Bits(k) == IF k > Len(cell.conns) THEN <<>>
                   ELSE (IF cell.conns[k].port \in cell.outputs
                         THEN cell.conns[k].sig ELSE <<>>) \o Bits(k + 1)
        IsWire(b) == ~b.wire.null
    IN  SelectSeq(Bits(1), IsWire)

\* the positions of the needle cell that have a pattern, with the pattern
Patterned(table, cell) ==
    {i \in 1..Len(FlatOutputs(cell)) : FlatOutputs(cell)[i].wire.name \in DOMAIN table}

RejectedAt(table, needle, haystack, i) ==
    \/ i > Len(FlatOutputs(haystack))
    \/ FlatOutputs(haystack)[i].wire.name
         \notin table[FlatOutputs(needle)[i].wire.name]

\* C14: the outcome of the regex step and of the call
C14_RegexCheck ==
    cmp.pc = "regex_done" =>
        LET entry == cmp.needle.module \in DOMAIN cmp.solver.regexMap
            table == cmp.solver.regexMap[cmp.needle.module]
            rejected == entry /\ \E i \in Patterned(table, cmp.needle) :
                                    RejectedAt(table, cmp.needle, cmp.haystack, i)
        IN  /\ cmp.step = ~rejected
            /\ cmp.result = IF rejected THEN "false" ELSE "true"

\* pattern ^sum_.* on the needle wire Y: carry_1 at that index is rejected
C14_Witness ==
    /\ cmp.pc = "regex_done"
    /\ cmp.solver.regexMap = [m \in {"mod"} |-> [w \in {"\\Y"} |-> Re_sum]]
    /\ Len(FlatOutputs(cmp.needle)) = 2
    /\ FlatOutputs(cmp.needle)[1].wire.name = "\\sum_42"
    /\ FlatOutputs(cmp.needle)[2].wire.name = "\\Y"
    /\ Len(FlatOutputs(cmp.haystack)) = 2
    /\ FlatOutputs(cmp.haystack)[1].wire.name = "\\Y"
    /\ FlatOutputs(cmp.haystack)[2].wire.name = "\\carry_1"
    /\ cmp.result = "false"

(***************************************************************************)
(* C15: the MatchList holds the Matches in discovery order, the haystack   *)
(* graphs being searched in the order in which they were registered with   *)
(* the solver, each one to completion before the next.                     *)
(***************************************************************************)
IsHaystackGraph(g) == g # NeedleGraphName(rq.needle)

\* the haystack graphs in the order of their addGraph calls
RegisteredHaystacks == SelectSeq(rq.added, IsHaystackGraph)

\* C15: the searches follow the registration order, and so do the Matches
C15_MatchOrder ==
    /\ rq.pc \in {"solve", "returned"} =>
          \A k \in 1..Len(rq.solved) : rq.solved[k][2] = RegisteredHaystacks[k]
    /\ rq.pc = "returned" /\ ~rq.ret.null
       /\ (\E k \in 1..Len(rq.added) : rq.added[k] = NeedleGraphName(rq.needle)) =>
          LET results == SolveAll(rq.config.solver, NeedleGraphName(rq.needle),
                                  RegisteredHaystacks, 1)
          IN  rq.ret.matches = [i \in 1..Len(results) |->
                                  FoldResult(rq.needle_ports, results[i])]

(***************************************************************************)
(* C16: the needle side of every port pair of a Match is the name of a     *)
(* module-level port of the needle module; a wire internal to the needle   *)
(* is never reported.                                                      *)
(***************************************************************************)
\* the wires of the needle module that are not among its ports
InternalWires(needle) ==
    {needle.wires[i].name : i \in {k \in 1..Len(needle.wires) :
                                      needle.wires[k].port_id = 0}}

\* C16: only boundary ports of the needle on the needle side
C16_BoundaryPorts ==
    rq.pc = "returned" /\ ~rq.ret.null =>
        \A i \in 1..Len(rq.ret.matches) :
            \A j \in 1..Len(rq.ret.matches[i].ports) :
                /\ rq.ret.matches[i].ports[j].needle \in rq.needle.ports
                /\ rq.ret.matches[i].ports[j].needle \notin InternalWires(rq.needle)

\* the chain pattern, whose wire t is internal, found in the chain module
C16_Witness ==
    /\ rq.pc = "returned"
    /\ rq.needle = N_chain
    /\ InternalWires(rq.needle) = {"\\t"}
    /\ rq.input.design = <<H_chain>>
    /\ Len(rq.ret.matches) = 1
    /\ Len(rq.ret.matches[1].cells) = 2
    /\ {rq.ret.matches[1].ports[j].needle : j \in 1..Len(rq.ret.matches[1].ports)}
         = rq.needle.ports

(***************************************************************************)
(* C17: every run_query works on a fresh solver: a graph registered by an  *)
(* earlier call on the same SvqlConfig is neither registered in nor        *)
(* searched by a later call, and the graphs a call searches are exactly    *)
(* those it built successfully itself.                                     *)
(***************************************************************************)
AddedByThisCall == {rq.added[k] : k \in 1..Len(rq.added)}

\* C17: in a later call the solver holds and searches this call's graphs only
C17_FreshSolver ==
    rq.call > 1 /\ rq.pc \in {"configured", "needle_graph", "haystack_graphs",
                              "solve", "returned"} =>
        /\ \A g \in rq.before \cap DOMAIN rq.config.solver.graphData :
              g \in AddedByThisCall
        /\ \A k \in 1..Len(rq.solved) :
              /\ rq.solved[k][1] \in AddedByThisCall
              /\ rq.solved[k][2] \in AddedByThisCall

(***************************************************************************)
(* C18: for every canonical wire bit that is not skipped, the first pin    *)
(* reached in iteration order is its driver reference and stays it: every  *)
(* connection created for the bit leads from that pin to the pin being     *)
(* visited, the first of them from the pin to itself.                      *)
(***************************************************************************)
\* iteration order: cells, then their connections, then the bits
Precedes(p, q) ==
    \/ p[1] < q[1]
    \/ p[1] = q[1] /\ p[2] < q[2]
    \/ p[1] = q[1] /\ p[2] = q[2] /\ p[3] <= q[3]

FirstOf(uses) == CHOOSE p \in uses : \A q \in uses : Precedes(p, q)

PinAt(pos) ==
    [node |-> mg.mod.cells[pos[1]].name,
     port |-> mg.mod.cells[pos[1]].conns[pos[2]].port, bit |-> pos[3] - 1]

\* the bit is used by more pins of cells in scope than the cap allows
OverCap(key) ==
    /\ mg.max_fanout > 0
    /\ Cardinality({pos \in PinPositions(mg.mod) :
          LET cell == mg.mod.cells[pos[1]]
              bit == SigMapBit(mg.mod, cell.conns[pos[2]].sig[pos[3]])
          IN  (~mg.sel \/ cell.selected) /\ ~bit.wire.null /\ BitKey(bit) = key})
         > mg.max_fanout

VisitedUses(key) == IF OverCap(key) THEN {} ELSE UsesOf(key)

\* C18: one connection per visited use, all from the first pin visited
C18_DriverReference ==
    mg.pc = "done" /\ mg.ok =>
        \A key \in CanonicalKeys :
            /\ Cardinality(ConnectionsFor(key)) = Cardinality(VisitedUses(key))
            /\ {[node |-> mg.graph.conns[i].toNode, port |-> mg.graph.conns[i].toPort,
                 bit |-> mg.graph.conns[i].toBit] : i \in ConnectionsFor(key)}
                 = {PinAt(pos) : pos \in VisitedUses(key)}
            /\ \A i \in ConnectionsFor(key) :
                  [node |-> mg.graph.conns[i].fromNode,
                   port |-> mg.graph.conns[i].fromPort,
                   bit |-> mg.graph.conns[i].fromBit]
                    = PinAt(FirstOf(VisitedUses(key)))
            /\ \A i \in ConnectionsFor(key) :
                  (\A j \in ConnectionsFor(key) : i <= j) =>
                      /\ mg.graph.conns[i].toNode = mg.graph.conns[i].fromNode
                      /\ mg.graph.conns[i].toPort = mg.graph.conns[i].fromPort
                      /\ mg.graph.conns[i].toBit = mg.graph.conns[i].fromBit

\* wire a is first met on input A of u1 and used by two more pins: three
\* connections leave u1.A, the first of them back to u1.A
C18_Witness ==
    /\ mg.pc = "done" /\ mg.ok
    /\ mg.max_fanout = 3
    /\ Cardinality(VisitedUses(<<"\\a", 0>>)) = 3
    /\ PinAt(FirstOf(VisitedUses(<<"\\a", 0>>)))
         = [node |-> <<"\\", "u", "1">>, port |-> A, bit |-> 0]
    /\ \E i \in ConnectionsFor(<<"\\a", 0>>) :
          /\ mg.graph.conns[i].toNode = <<"\\", "u", "1">>
          /\ mg.graph.conns[i].toPort = A
          /\ mg.graph.conns[i].fromPort = A
    /\ \E i \in ConnectionsFor(<<"\\a", 0>>) :
          /\ mg.graph.conns[i].fromNode = <<"\\", "u", "1">>
          /\ mg.graph.conns[i].toNode = <<"\\", "u", "3">>

(***************************************************************************)
(* C19: with a cap k > 0, the use count of a canonical bit is the number   *)
(* of input-port bit positions of cells in scope that carry the bit after  *)
(* alias resolution, and the bit gets no connection at all exactly when    *)
(* that number is above k.                                                 *)
(***************************************************************************)
\* the input-port positions of cells in scope that carry the bit
InputUses(key) ==
    {pos \in PinPositions(mg.mod) :
        LET cell == mg.mod.cells[pos[1]]
            bit == SigMapBit(mg.mod, cell.conns[pos[2]].sig[pos[3]])
        IN  /\ ~mg.sel \/ cell.selected
            /\ cell.conns[pos[2]].port \notin cell.outputs
            /\ ~bit.wire.null /\ BitKey(bit) = key}

\* C19: the count is the number of input uses, and decides the exclusion
C19_FanoutCounting ==
    mg.pc = "done" /\ mg.ok /\ mg.max_fanout > 0 =>
        \A key \in CanonicalKeys :
            /\ mg.sig_use_count[key] = Cardinality(InputUses(key))
            /\ Cardinality(InputUses(key)) > mg.max_fanout =>
                  ConnectionsFor(key) = {}
            /\ Cardinality(InputUses(key)) <= mg.max_fanout =>
                  Cardinality(ConnectionsFor(key)) = Cardinality(UsesOf(key))

(***************************************************************************)
(* C20: module2graph either rejects the module up front, because it is     *)
(* outside the selection or has processes, and leaves the graph it was     *)
(* given as it was, or returns true with every cell in scope converted;    *)
(* it never returns false with the graph changed.                          *)
(***************************************************************************)
RejectedUpFront == (mg.sel /\ ~mg.mod.selected) \/ mg.mod.processes > 0

\* C20: false leaves the graph untouched, true converts every cell in scope
C20_NoPartialBuild ==
    mg.pc = "done" =>
        /\ mg.ok = ~RejectedUpFront
        /\ ~mg.ok => mg.graph = mg.passed
        /\ mg.ok =>
              \A c \in 1..Len(mg.mod.cells) :
                  (~mg.sel \/ mg.mod.cells[c].selected) =>
                      /\ \E n \in (Len(mg.passed.nodes) + 1)..Len(mg.graph.nodes) :
                            mg.graph.nodes[n].nodeId = mg.mod.cells[c].name
                      /\ \A p \in 1..Len(mg.mod.cells[c].conns) :
                            \E q \in (Len(mg.passed.ports) + 1)..Len(mg.graph.ports) :
                                /\ mg.graph.ports[q].node = mg.mod.cells[c].name
                                /\ mg.graph.ports[q].port = mg.mod.cells[c].conns[p].port

\* a module with a process, constports set, a graph that already holds a cell
C20_Witness ==
    /\ mg.pc = "done"
    /\ mg.mod = H_proc
    /\ mg.constports
    /\ mg.passed = PriorGraph
    /\ Len(mg.passed.nodes) = 1
    /\ ~mg.ok
    /\ mg.graph = PriorGraph

(***************************************************************************)
(* C21: with constports, module2graph creates the four constant nodes,     *)
(* each with one 1-bit port Y marked extern, once and before any cell      *)
(* node, and every literal pin bit it visits gets one connection to the    *)
(* node of its value and no inline constant; without constports there is   *)
(* no constant node and every such bit is an inline constant with no       *)
(* connection.                                                             *)
(***************************************************************************)
\* the literal bits on the pins the conversion visits
LiteralPins ==
    {pos \in PinPositions(mg.mod) :
        LET cell == mg.mod.cells[pos[1]]
        IN  /\ ~mg.sel \/ cell.selected
            /\ <<cell.type, cell.conns[pos[2]].port>> \notin mg.split
            /\ cell.conns[pos[2]].sig[pos[3]].wire.null}

LiteralAt(pos) == mg.mod.cells[pos[1]].conns[pos[2]].sig[pos[3]].data

\* 0, 1 and z have a node of their own, every other state goes to x
NodeOfState(data) ==
    IF data \in {"0", "1", "z"} THEN <<"$", "c", "o", "n", "s", "t", "$", data>>
    ELSE <<"$", "c", "o", "n", "s", "t", "$", "x">>

\* the connections this call added that touch the pin
ConnectionsAt(pin) ==
    {i \in (Len(mg.passed.conns) + 1)..Len(mg.graph.conns) :
        LET c == mg.graph.conns[i]
        IN  \/ c.fromNode = pin.node /\ c.fromPort = pin.port /\ c.fromBit = pin.bit
            \/ c.toNode = pin.node /\ c.toPort = pin.port /\ c.toBit = pin.bit}

NewNodeIds(from) ==
    {mg.graph.nodes[n].nodeId : n \in (Len(mg.passed.nodes) + from)..Len(mg.graph.nodes)}

C21_ConstantNodes ==
    mg.pc = "done" /\ mg.ok =>
        /\ mg.constports =>
              /\ Len(mg.graph.nodes) >= Len(mg.passed.nodes) + 4
              /\ \A k \in 1..4 :
                    LET n == mg.graph.nodes[Len(mg.passed.nodes) + k]
                    IN  /\ n.nodeId = NodeOfState(<<"0", "1", "x", "z">>[k])
                        /\ n.userData.null
              /\ \A s \in LiteralStates : NodeOfState(s) \notin NewNodeIds(5)
              /\ \A s \in LiteralStates :
                    /\ Cardinality({q \in 1..Len(mg.graph.ports) :
                          mg.graph.ports[q].node = NodeOfState(s)}) = 1
                    /\ \E q \in 1..Len(mg.graph.ports) :
                          mg.graph.ports[q] = [node |-> NodeOfState(s), port |-> "\\Y",
                                               width |-> 1]
                    /\ [node |-> NodeOfState(s), port |-> "\\Y", bit |-> 0]
                          \in mg.graph.externs
              /\ mg.graph.constants = mg.passed.constants
              /\ \A pos \in LiteralPins :
                    /\ Cardinality(ConnectionsAt(PinAt(pos))) = 1
                    /\ \A i \in ConnectionsAt(PinAt(pos)) :
                          /\ mg.graph.conns[i].toNode = NodeOfState(LiteralAt(pos))
                          /\ mg.graph.conns[i].toPort = "\\Y"
                          /\ mg.graph.conns[i].toBit = 0
        /\ ~mg.constports =>
              /\ \A s \in LiteralStates : NodeOfState(s) \notin NewNodeIds(1)
              /\ \A pos \in LiteralPins :
                    /\ [node |-> PinAt(pos).node, port |-> PinAt(pos).port,
                        bit |-> PinAt(pos).bit, value |-> LiteralAt(pos)]
                          \in mg.graph.constants
                    /\ ConnectionsAt(PinAt(pos)) = {}
              /\ \A c \in mg.graph.constants \ mg.passed.constants :
                    \E pos \in LiteralPins :
                        /\ PinAt(pos) = [node |-> c.node, port |-> c.port, bit |-> c.bit]
                        /\ c.value = LiteralAt(pos)

\* inputs tied to z and to a don't-care bit, with constports: the nodes z and x
C21_Witness ==
    /\ mg.pc = "done" /\ mg.ok
    /\ mg.constports
    /\ mg.passed = PriorGraph
    /\ mg.split = {}
    /\ \E pos \in LiteralPins : LiteralAt(pos) = "z"
    /\ \E pos \in LiteralPins : LiteralAt(pos) = "a"
    /\ \E i \in 1..Len(mg.graph.conns) :
          mg.graph.conns[i].toNode = <<"$", "c", "o", "n", "s", "t", "$", "z">>
    /\ \E i \in 1..Len(mg.graph.conns) :
          mg.graph.conns[i].toNode = <<"$", "c", "o", "n", "s", "t", "$", "x">>

(***************************************************************************)
(* C22: after module2graph returns true, a pin bit other than those of the *)
(* constant nodes is marked extern exactly when it is the driver reference *)
(* of a canonical bit that a cell outside the selection or a port wire of  *)
(* the module also carries; a bit without driver reference marks nothing.  *)
(***************************************************************************)
UsedOutside(key) ==
    \E pos \in PinPositions(mg.mod) :
        LET cell == mg.mod.cells[pos[1]]
            bit == SigMapBit(mg.mod, cell.conns[pos[2]].sig[pos[3]])
        IN  mg.sel /\ ~cell.selected /\ ~bit.wire.null /\ BitKey(bit) = key

OnModulePort(key) ==
    \E w \in 1..Len(mg.mod.wires) :
        /\ mg.mod.wires[w].port_id > 0
        /\ \E o \in 0..(mg.mod.wires[w].width - 1) :
              BitKey(SigMapBit(mg.mod, [wire |-> mg.mod.wires[w], offset |-> o,
                                        data |-> "x"])) = key

\* the marks this call added, those of the constant nodes left out
CellMarks ==
    {e \in mg.graph.externs \ mg.passed.externs :
        \A s \in LiteralStates : e.node # NodeOfState(s)}

C22_ExternMarks ==
    mg.pc = "done" /\ mg.ok =>
        CellMarks = {PinAt(FirstOf(VisitedUses(key))) :
                        key \in {k \in CanonicalKeys :
                                    /\ VisitedUses(k) # {}
                                    /\ UsedOutside(k) \/ OnModulePort(k)}}

\* the chain module with its consumer outside the selection: the internal
\* wire t marks output Y of u1, and only the selection makes it so
C22_Witness ==
    /\ mg.pc = "done" /\ mg.ok
    /\ mg.sel
    /\ mg.max_fanout = -1
    /\ mg.split = {}
    /\ mg.mod.name = H_chain.name
    /\ ~mg.mod.cells[1].selected /\ mg.mod.cells[2].selected
    /\ ~OnModulePort(<<"\\t", 0>>)
    /\ UsedOutside(<<"\\t", 0>>)
    /\ [node |-> <<"\\", "u", "1">>, port |-> "\\Y", bit |-> 0] \in CellMarks

(***************************************************************************)
(* C23: with wire attributes to compare, the wire-attribute step of        *)
(* userCompareNodes, which skips a bit whose pair of wires is the pair of  *)
(* the bit before it, gives the result of comparing the attributes at      *)
(* every bit position, a literal bit having no attributes.                 *)
(***************************************************************************)
AttrsOfBit(bit) == IF bit.wire.null THEN EmptyMap ELSE bit.wire.attributes

\* the comparison made at every bit position of every port
EveryBitAgrees(wire_attr, needle, haystack) ==
    \A k \in 1..Len(needle.conns) :
        LET nsig == needle.conns[k].sig
            hsig == haystack.conns[CHOOSE j \in 1..Len(haystack.conns) :
                        haystack.conns[j].port = needle.conns[k].port].sig
        IN  \A i \in 1..Len(nsig) :
                i <= Len(hsig) =>
                    AttrsAgree(wire_attr, AttrsOfBit(nsig[i]), AttrsOfBit(hsig[i]))

C23_WireAttrDedup ==
    cmp.pc = "wire_done" /\ cmp.solver.wire_attr # {} =>
        /\ cmp.step = EveryBitAgrees(cmp.solver.wire_attr, cmp.needle, cmp.haystack)
        /\ cmp.result = IF cmp.step THEN "true" ELSE "false"

\* the two bits of one wire on both sides of port A, so that the second bit
\* is skipped, and a pair on port Y that disagrees
C23_Witness ==
    /\ cmp.pc = "wire_done"
    /\ cmp.solver.wire_attr = {"keep"}
    /\ Len(cmp.needle.conns[1].sig) = 2
    /\ cmp.needle.conns[1].sig[1].wire = cmp.needle.conns[1].sig[2].wire
    /\ cmp.needle.conns[1].sig[1].wire.name = "\\w1"
    /\ cmp.haystack.conns[1].sig = cmp.needle.conns[1].sig
    /\ cmp.needle.conns[2].sig[1].wire.name = "\\w1"
    /\ cmp.haystack.conns[2].sig[1].wire.null
    /\ cmp.result = "false"

(***************************************************************************)
(* C24: in every call of userCompareNodes that reaches the parameter step, *)
(* a parameter name is excluded on the needle side exactly when it is      *)
(* excluded on the haystack side, also when the two cell types differ, so  *)
(* that the outcome of the step is that of the parameters left after       *)
(* dropping the excluded names on both sides.                              *)
(***************************************************************************)
ExcludedFor(solver, cell, p) == <<cell.type, p>> \in solver.ignoredParams

\* the names excluded for one of the two cell types
ExcludedNames(solver, n, h) ==
    {p \in DOMAIN n.parameters \cup DOMAIN h.parameters :
        ExcludedFor(solver, n, p) \/ ExcludedFor(solver, h, p)}

\* the comparison of the parameters that no exclusion names
RestAgrees(solver, n, h) ==
    LET keep(cell) == DOMAIN cell.parameters \ ExcludedNames(solver, n, h)
    IN  /\ keep(n) = keep(h)
        /\ \A p \in keep(n) :
              unifiedParam(n.type, p, n.parameters[p])
              = unifiedParam(h.type, p, h.parameters[p])

C24_SymmetricExclusion ==
    CmpBothCells /\ ~cmp.solver.ignoreParameters =>
        /\ \A p \in DOMAIN cmp.needle.parameters \cup DOMAIN cmp.haystack.parameters :
              ExcludedFor(cmp.solver, cmp.needle, p)
              <=> ExcludedFor(cmp.solver, cmp.haystack, p)
        /\ ParamStep(cmp.solver, cmp.needle, cmp.haystack)
           = RestAgrees(cmp.solver, cmp.needle, cmp.haystack)

\* C24 for the pairs of one cell type
C24_SameType ==
    CmpBothCells /\ ~cmp.solver.ignoreParameters
    /\ cmp.needle.type = cmp.haystack.type =>
        /\ \A p \in DOMAIN cmp.needle.parameters \cup DOMAIN cmp.haystack.parameters :
              ExcludedFor(cmp.solver, cmp.needle, p)
              <=> ExcludedFor(cmp.solver, cmp.haystack, p)
        /\ ParamStep(cmp.solver, cmp.needle, cmp.haystack)
           = RestAgrees(cmp.solver, cmp.needle, cmp.haystack)

(***************************************************************************)
(* C25: escape_needle_name returns a name that starts with "needle_"       *)
(* without that prefix, a name that starts with "haystack_" without that   *)
(* prefix, and any other name unchanged.                                   *)
(***************************************************************************)
StartsWith(name, prefix) ==
    Len(name) >= Len(prefix) /\ SubSeq(name, 1, Len(prefix)) = prefix

Without(name, prefix) == SubSeq(name, Len(prefix) + 1, Len(name))

C25_PrefixStripping ==
    uni.pc = "name_done" =>
        uni.out = IF StartsWith(uni.name, Prefix_needle)
                    THEN Without(uni.name, Prefix_needle)
                  ELSE IF StartsWith(uni.name, Prefix_haystack)
                    THEN Without(uni.name, Prefix_haystack)
                  ELSE uni.name

\* C25 for the names that do not start with "haystack_"
C25_NeedleSide ==
    uni.pc = "name_done" /\ ~StartsWith(uni.name, Prefix_haystack) =>
        uni.out = IF StartsWith(uni.name, Prefix_needle)
                    THEN Without(uni.name, Prefix_needle)
                  ELSE uni.name

\* a name that starts with "haystack_" comes back as it went in
C25_HaystackKept ==
    uni.pc = "name_done" /\ StartsWith(uni.name, Prefix_haystack) =>
        uni.out = uni.name

(***************************************************************************)
(* C26: compareSortNeedleList puts a module before another when its        *)
(* extract_order (0 when absent) is smaller, or equal with the smaller     *)
(* name; on modules of distinct names it is irreflexive, asymmetric,       *)
(* transitive and total.                                                   *)
(***************************************************************************)
SortedModules == <<uni.left, uni.mid, uni.right>>

ExtractOrder(mod) ==
    IF "extract_order" \in DOMAIN mod.attributes
    THEN as_int(mod.attributes["extract_order"]) ELSE 0

DistinctNames(i, j) == SortedModules[i].name.str # SortedModules[j].name.str

C26_NeedleOrder ==
    uni.pc = "sort_done" =>
        LET I == {1, 2, 3}
            lt(i, j) == <<i, j>> \in uni.less
        IN  /\ \A i, j \in I :
                lt(i, j) <=>
                    \/ ExtractOrder(SortedModules[i]) < ExtractOrder(SortedModules[j])
                    \/ /\ ExtractOrder(SortedModules[i]) = ExtractOrder(SortedModules[j])
                       /\ SortedModules[i].name.index_ < SortedModules[j].name.index_
            /\ \A i \in I : ~lt(i, i)
            /\ \A i, j \in I : ~(lt(i, j) /\ lt(j, i))
            /\ \A i, j, k \in I : lt(i, j) /\ lt(j, k) => lt(i, k)
            /\ \A i, j \in I : i # j /\ DistinctNames(i, j) => lt(i, j) \/ lt(j, i)

\* three modules of distinct names: a negative extract_order first, then
\* two of priority 0, one without the attribute, put in order by their names
C26_Witness ==
    /\ uni.pc = "sort_done"
    /\ DistinctNames(1, 2) /\ DistinctNames(2, 3) /\ DistinctNames(1, 3)
    /\ ExtractOrder(uni.left) < 0
    /\ uni.mid.attributes = EmptyMap
    /\ "extract_order" \in DOMAIN uni.right.attributes
    /\ ExtractOrder(uni.right) = 0
    /\ uni.less = {<<1, 2>>, <<1, 3>>, <<2, 3>>}

(***************************************************************************)
(* C27: every port map that configure hands to                             *)
(* addSwappablePortsPermutation is a bijection on its port set: it has one *)
(* key per distinct port of the left list of its declaration, maps no two  *)
(* keys to the same port, and its key set is its value set.                *)
(***************************************************************************)
MapValues(map) == {map[p] : p \in DOMAIN map}

IsBijectionOnPorts(map) ==
    /\ \A p, q \in DOMAIN map : map[p] = map[q] => p = q
    /\ DOMAIN map = MapValues(map)

\* the declarations that a registered entry can come from
DeclarationsOf(entry) ==
    {k \in 1..Len(rq.input.cfg.perms) :
        /\ rq.input.cfg.perms[k].type = entry[1]
        /\ PermValid(rq.input.cfg.perms[k].left, rq.input.cfg.perms[k].right)
        /\ PermMap(rq.input.cfg.perms[k].left, rq.input.cfg.perms[k].right) = entry[2]}

C27_PermutationBijection ==
    rq.pc \notin {"off", "start"} =>
        \A entry \in rq.config.solver.swapPermutations :
            /\ IsBijectionOnPorts(entry[2])
            /\ \E k \in DeclarationsOf(entry) :
                  Cardinality(DOMAIN entry[2])
                  = Cardinality(Range(rq.input.cfg.perms[k].left))

NoRepeatedPort(list) == \A i, j \in 1..Len(list) : list[i] = list[j] => i = j

\* C27 for the declarations whose left list names every port once
C27_WithoutRepeats ==
    rq.pc \notin {"off", "start"}
    /\ (\A k \in 1..Len(rq.input.cfg.perms) : NoRepeatedPort(rq.input.cfg.perms[k].left)) =>
        \A entry \in rq.config.solver.swapPermutations :
            /\ IsBijectionOnPorts(entry[2])
            /\ \E k \in DeclarationsOf(entry) :
                  Cardinality(DOMAIN entry[2])
                  = Cardinality(Range(rq.input.cfg.perms[k].left))

(***************************************************************************)
(* C28: two distinct Results found in one haystack graph map no haystack   *)
(* cell in common; a haystack node they both map is one of the constant    *)
(* nodes, which carry no cell.                                             *)
(***************************************************************************)
MappedHaystackNodes(result) ==
    {result.mappings[id].haystackNodeId : id \in DOMAIN result.mappings}

SameHaystack(i, j) ==
    /\ i # j
    /\ rq.results[i].haystackGraphId = rq.results[j].haystackGraphId

\* the mappings of a Result onto the node of that name
MappingsOnto(result, node) ==
    {id \in DOMAIN result.mappings : result.mappings[id].haystackNodeId = node}

C28_NoSharedCell ==
    rq.pc \notin {"off", "start"} =>
        \A i, j \in 1..Len(rq.results) :
            SameHaystack(i, j) =>
                \A node \in MappedHaystackNodes(rq.results[i])
                            \cap MappedHaystackNodes(rq.results[j]) :
                    \A id \in MappingsOnto(rq.results[i], node) :
                        rq.results[i].mappings[id].haystackUserData.null

\* two Results in one haystack graph, each mapping a cell
C28_Witness ==
    /\ rq.pc = "returned"
    /\ \E i, j \in 1..Len(rq.results) :
          /\ SameHaystack(i, j)
          /\ \E id \in DOMAIN rq.results[i].mappings :
                ~rq.results[i].mappings[id].haystackUserData.null
          /\ \E id \in DOMAIN rq.results[j].mappings :
                ~rq.results[j].mappings[id].haystackUserData.null

\* C28 as stated: the sets of mapped haystack nodes are disjoint
C28_NoSharedNode ==
    rq.pc \notin {"off", "start"} =>
        \A i, j \in 1..Len(rq.results) :
            SameHaystack(i, j) =>
                MappedHaystackNodes(rq.results[i])
                \cap MappedHaystackNodes(rq.results[j]) = {}

(***************************************************************************)
(* C29: when the loop over the haystack graphs has ended and the Results   *)
(* are folded, every mapping of every Result has a cell as its needle user *)
(* data and a cell as its haystack user data, with constPorts too.         *)
(***************************************************************************)
\* the fold of lines 595-650 is what run_query does next
FoldBegins == rq.pc = "solve" /\ ToSolve = <<>>

C29_NoMissingCell ==
    FoldBegins =>
        \A i \in 1..Len(rq.results) :
            \A id \in DOMAIN rq.results[i].mappings :
                /\ ~rq.results[i].mappings[id].needleUserData.null
                /\ ~rq.results[i].mappings[id].haystackUserData.null

\* C29 for the queries without constPorts
C29_WithoutConstPorts ==
    FoldBegins /\ ~rq.config.constports =>
        \A i \in 1..Len(rq.results) :
            \A id \in DOMAIN rq.results[i].mappings :
                /\ ~rq.results[i].mappings[id].needleUserData.null
                /\ ~rq.results[i].mappings[id].haystackUserData.null

(***************************************************************************)
(* C30: every port pair (needle port p, haystack wire h) of a Match agrees *)
(* with the embedding: under some port mapping that makes the Result an    *)
(* embedding, h is the wire on the haystack pin that corresponds to a      *)
(* needle pin carrying p; for the AND gate found in an identically wired   *)
(* AND gate the pairs are (A,A), (B,B), (Y,Y), with one cell pair.         *)
(***************************************************************************)
\* the haystack node of each needle node, as the search keeps it
PartialOf(ng, hg, result) ==
    [i \in 1..Len(ng.nodes) |->
        NodeIdx(hg, result.mappings[ng.nodes[i].nodeId].haystackNodeId)]

\* the port mappings, one per needle node, that make the Result an embedding
EmbeddingPortMappings(solver, ng, hg, result) ==
    LET partial == PartialOf(ng, hg, result)
        choices == UNION {PortMappings(solver, ng.nodes[i].typeId,
                                       NodePorts(ng, ng.nodes[i].nodeId)) :
                             i \in 1..Len(ng.nodes)}
    IN  {pms \in [1..Len(ng.nodes) -> choices] :
            /\ \A i \in 1..Len(ng.nodes) :
                  /\ pms[i] \in PortMappings(solver, ng.nodes[i].typeId,
                                             NodePorts(ng, ng.nodes[i].nodeId))
                  /\ NodeOk(solver, ng, hg, i, partial[i], pms[i])
            /\ EdgesOk(ng, hg, partial, pms)}

\* the pair names the wires of two pins that pms puts in correspondence
PairUnder(ng, result, pms, pair) ==
    \E id \in DOMAIN result.mappings :
        LET needleCell == result.mappings[id].needleUserData
            graphCell  == result.mappings[id].haystackUserData
            pm         == pms[NodeIdx(ng, id)]
        IN  \E k \in 1..Len(needleCell.conns) :
                LET nsig == needleCell.conns[k].sig
                    hsig == getPort(graphCell, pm[needleCell.conns[k].port])
                IN  \E b \in 1..Len(nsig) :
                        /\ ~nsig[b].wire.null
                        /\ nsig[b].wire.name = pair.needle
                        /\ b <= Len(hsig)
                        /\ ~hsig[b].wire.null
                        /\ hsig[b].wire.name = pair.haystack

ConsistentPorts(i) ==
    LET result == rq.results[i]
        ng     == rq.config.solver.graphData[result.needleGraphId]
        hg     == rq.config.solver.graphData[result.haystackGraphId]
        match  == rq.ret.matches[i]
    IN  \E pms \in EmbeddingPortMappings(rq.config.solver, ng, hg, result) :
            \A j \in 1..Len(match.ports) : PairUnder(ng, result, pms, match.ports[j])

\* the AND gate pattern and one haystack module wired like it
IdenticalAnd ==
    /\ rq.input.cfg.pat_module_name = Name_and
    /\ rq.input.design = <<H_and>>
    /\ rq.call = 1

IdenticalAndPairs ==
    /\ Len(rq.ret.matches) = 1
    /\ Len(rq.ret.matches[1].cells) = 1
    /\ Range(rq.ret.matches[1].ports)
         = {[needle |-> w.name, haystack |-> w.name] : w \in {Wa.wire, Wb.wire, Wy.wire}}
    /\ Len(rq.ret.matches[1].ports) = 3

\* a run that returned Matches made of cells only
ReturnedCells ==
    /\ rq.pc = "returned"
    /\ ~rq.ret.null
    /\ \A i \in 1..Len(rq.results) : ~DerefsNull(rq.results[i])

\* no pin of the needle or of a haystack module is tied to a literal, so
\* that both cells of a pair have a wire at every position
WiresOnly ==
    /\ NoLiteralPin(rq.needle)
    /\ \A k \in 1..Len(rq.input.design) : NoLiteralPin(rq.input.design[k])

\* C30, checked on the queries whose pins all carry wires
C30_PortPairs ==
    ReturnedCells /\ WiresOnly =>
        /\ \A i \in 1..Len(rq.results) :
              rq.results[i].mappings # EmptyMap => ConsistentPorts(i)
        /\ IdenticalAnd => IdenticalAndPairs

\* C30 for the AND gate found in the identically wired AND gate
C30_IdenticalAnd == ReturnedCells /\ IdenticalAnd => IdenticalAndPairs

\* C30 for the Results that are embeddings with every port mapped to itself
C30_WithoutSwap ==
    ReturnedCells /\ WiresOnly =>
        \A i \in 1..Len(rq.results) :
            LET result == rq.results[i]
                ng == rq.config.solver.graphData[result.needleGraphId]
                hg == rq.config.solver.graphData[result.haystackGraphId]
                same == [k \in 1..Len(ng.nodes) |->
                            [p \in NodePorts(ng, ng.nodes[k].nodeId) |-> p]]
            IN  /\ result.mappings # EmptyMap
                /\ same \in EmbeddingPortMappings(rq.config.solver, ng, hg, result)
                => \A j \in 1..Len(rq.ret.matches[i].ports) :
                      PairUnder(ng, result, same, rq.ret.matches[i].ports[j])

====
